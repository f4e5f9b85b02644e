----------------------------- MODULE MCSyscall -----------------------------
(* Model-checking instance of Syscall: bytes of two bits, four pages of four *)
(* bytes, of which page 0 is never mapped.                                   *)
EXTENDS Syscall, TLC

CONSTANTS p1, p2, p3, p4   \* processes

\* An address space with the given contents of pages 1, 2 and 3; the frames
\* are in another order than the pages.  The empty sequence is no page.
Space(page1, page2, page3) ==
  LET page == <<page1, page2, page3>>
      frame == <<3, 1, 2>>
      mapped == {i \in 1..3 : page[i] # <<>>}
      at == [f \in 1..3 |-> CHOOSE i \in 1..3 : frame[i] = f]
  IN  [pt |-> [i \in mapped |-> frame[i]],
       ram |-> [pa \in 4..15 |-> IF at[pa \div 4] \in mapped
                                   THEN page[at[pa \div 4]][(pa % 4) + 1] ELSE 1]]

Exec(as, upath, uargv) ==
  [op |-> "syscall", a7 |-> SYS_EXEC, as |-> as, upath |-> upath, uargv |-> uargv]
Write(as, fd, buf, n) ==
  [op |-> "syscall", a7 |-> SYS_WRITE, as |-> as, fd |-> fd, buf |-> buf, n |-> n]

MCPrograms == << <<1>>, <<1, 2>> >>

AnyOf(x) == [op |-> "any", of |-> x]

\* The calls of exec(), chosen in two steps: the addresses and pages 2 and 3,
\* then page 1.  The last has up to MAXARG + 1 arguments that fit.
ExecKeys ==
  {<<"exec", upath, uargv, page2, page3>> :
     upath \in {4, 10}, uargv \in {0, 4, 7, 14},
     page2 \in {<<0, 0, 1, 0>>, <<0, 0, 1, 2>>, <<>>}, page3 \in {<<0, 0, 0, 1>>, <<>>}}
    \cup {<<"exec", 12, 4, <<2, 2, 0, 0>>, <<1, 0, 0, 1>>>>}
ExecCalls(k) == {Exec(Space(page1, k[4], k[5]), k[2], k[3]) : page1 \in [1..4 -> 0..2]}

TextSpaces == {Space(<<1, 2, 3, 1>>, <<2, 0, 3, 1>>, <<>>), Space(<<3, 2, 1, 1>>, <<>>, <<1, 2, 0, 3>>)}
WriteCalls ==
  {Write(as, 1, buf, n) : as \in TextSpaces, buf \in {3, 4, 7, 12, 15}, n \in -1..(MAXWRITE + 1)}
    \cup {Write(as, 2, 4, 1) : as \in TextSpaces}

Numbers == {-128, -127, -100, -10, -9, -1, 0, 7, 10, 99, 100, 127}
Formats ==
  {<< <<"d", n>>, <<"c", 32>> >> : n \in Numbers}
    \cup {<< <<spec, n % 256>> >> : spec \in {"u", "x", "p"}, n \in Numbers}
    \cup {<< <<"c", 65>>, <<"?", 0>>, <<"c", 66>> >>}

Word == Message(<< <<"c", 65>>, <<"c", 66>> >>)
Text == Write(Space(<<1, 2, 3, 1>>, <<2, 0, 3, 1>>, <<>>), 1, 5, 3)
Fail == [op |-> "panic", fmt |-> Says(80)]

MCInputs ==
  [k \in {<<"exec">>, <<"write">>, <<"printf">>, <<"other">>} \cup ExecKeys |->
    CASE k = <<"exec">>   -> {AnyOf(x) : x \in ExecKeys}
      [] k = <<"write">>  -> WriteCalls
      [] k = <<"printf">> -> {Message(f) : f \in Formats}
      [] k = <<"other">>  -> {[op |-> "syscall", a7 |-> n] : n \in {-1, 0, 2, 12}}
      [] OTHER            -> ExecCalls(k)]

Script(harts, runs) == [harts |-> harts, runs |-> runs]

\* One process with many inputs, then several on two harts: one writes, one
\* may take an exception while it prints, one panics while two others print.
\* Hart 2 has no stack.
MCScripts ==
  {Script({0}, p1 :> <<AnyOf(<<x>>)>>) : x \in {"exec", "write", "printf"}}
    \cup {Script({0, 2}, p1 :> <<AnyOf(<<"other">>)>>),
          Script({0, 1}, p1 :> <<Text>> @@ p3 :> <<Message(Line)>>),
          Script({0, 1}, p1 :> <<Message(Line)>> @@ p2 :> <<Word>>),
          Script({0, 1}, p1 :> <<Message(Line)>> @@ p3 :> <<Message(Line)>> @@ p4 :> <<Fail>>)}
=============================================================================
