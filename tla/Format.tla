------------------------------- MODULE Format -------------------------------
(***************************************************************************)
(* What the formats of kernel/kprint.c put on the console.  A format is a  *)
(* sequence of conversions <<spec, arg>>; an ordinary character is the     *)
(* conversion "c" of itself.  Characters are ASCII codes.                  *)
(***************************************************************************)
EXTENDS Integers, Sequences, SequencesExt

CONSTANT Width     \* bits of an int

digits == [d \in 0..15 |-> IF d < 10 THEN 48 + d ELSE 87 + d]
Minus == 45

\* The loop that fills nums[]: digits of n, the last one first.
RECURSIVE nums(_, _)
nums(n, base) ==
  <<digits[n % base]>> \o (IF n \div base = 0 THEN <<>> ELSE nums(n \div base, base))

print_uint(n, base) == Reverse(nums(n, base))

\* n = -(uint32_t)num, which is right for INT_MIN too.
printint(num, base) ==
  LET n == IF num < 0 THEN (-(num % 2 ^ Width)) % 2 ^ Width ELSE num
  IN  Reverse(nums(n, base) \o (IF num < 0 THEN <<Minus>> ELSE <<>>))

print_addr(addr) ==
  <<48, 120>> \o [k \in 1..(Width \div 4) |-> digits[(addr \div 16 ^ (Width \div 4 - k)) % 16]]

\* The characters before the NUL that ends a string; NUL is 0.
print_string(s) == SubSeq(s, 1, SelectInSeq(s, LAMBDA c : c = 0) - 1)

\* The complaints about a bad specifier, one character for either.
Complaint == <<63>>

\* The loop of printf(): an unknown specifier, or none, ends it.
RECURSIVE Format(_)
Format(fmt) ==
  IF fmt = <<>> THEN <<>>
  ELSE LET spec == fmt[1][1]  arg == fmt[1][2]  rest == Tail(fmt)
       IN  CASE spec = "d" -> printint(arg, 10) \o Format(rest)
             [] spec = "u" -> print_uint(arg, 10) \o Format(rest)
             [] spec = "x" -> print_uint(arg, 16) \o Format(rest)
             [] spec = "p" -> print_addr(arg) \o Format(rest)
             [] spec = "s" -> print_string(arg) \o Format(rest)
             [] spec = "c" -> <<arg>> \o Format(rest)
             [] OTHER      -> Complaint
=============================================================================
