---------------------------- MODULE MCAddrSpace ----------------------------
(* Model-checking instance of AddrSpace: pages of 8 bytes, 16 virtual pages *)
(* with user pages 1 to 3, the UART at 4, the kernel at 8 to 10, the stack  *)
(* at 12.                                                                  *)
EXTENDS AddrSpace

Seg(va, memsz, offset, filesz, x, w) ==
  [load |-> TRUE, va |-> va, memsz |-> memsz, offset |-> offset, filesz |-> filesz,
   x |-> x, w |-> w]
Prog(ph) == [valid |-> TRUE, len |-> 40, phoff |-> 4, entry |-> ph[1].va, ph |-> ph]

\* init fills a page; tool has .bss on a page of its own; gap leaves a page
\* out and has headers to skip; overlap fails at its second segment, the
\* others at their first header.
MCElf ==
  [init    |-> Prog(<<Seg(8, 5, 16, 5, TRUE, FALSE)>>),
   tool    |-> Prog(<<Seg(8, 8, 16, 8, TRUE, FALSE), Seg(16, 12, 24, 3, FALSE, TRUE)>>),
   gap     |-> Prog(<<Seg(8, 3, 16, 3, TRUE, FALSE), Seg(8, 0, 16, 0, FALSE, TRUE),
                      [Seg(64, 4, 16, 4, FALSE, TRUE) EXCEPT !.load = FALSE],
                      Seg(24, 8, 32, 8, FALSE, TRUE)>>),
   overlap |-> Prog(<<Seg(8, 9, 16, 9, TRUE, FALSE), Seg(16, 4, 25, 4, FALSE, TRUE)>>),
   beyond  |-> Prog(<<Seg(24, 9, 25, 4, FALSE, TRUE)>>),
   wraps   |-> Prog(<<Seg(120, 16, 25, 4, FALSE, TRUE)>>),
   cut     |-> [Prog(<<Seg(8, 5, 16, 5, TRUE, FALSE)>>) EXCEPT !.len = 6],
   other   |-> [Prog(<<Seg(8, 5, 16, 5, TRUE, FALSE)>>) EXCEPT !.valid = FALSE]]

\* Two arguments that fit the stack page, two that do not, too many; a
\* program that is not there; and each of the programs.
MCExecCalls ==
  {<<"tool", <<2, 1>>>>, <<"tool", <<3, 2>>>>, <<"tool", <<1, 1, 1>>>>, <<"none", <<>>>>}
    \cup {<<name, <<>>>> : name \in DOMAIN MCElf \ {"tool"}}
=============================================================================
