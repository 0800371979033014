---------------------------- MODULE AutolockPage ----------------------------
(***************************************************************************)
(* The page a thread shares with the kernel (struct kernel_autolock_abi on *)
(* the user side, struct auto_lock on the kernel side) and the scheduler's *)
(* reading of it.  There is no state here: the lock modules keep one page  *)
(* per thread and write it with the setters, the scheduler modules ask     *)
(* DontSched.                                                              *)
(***************************************************************************)
EXTENDS Naturals

CONSTANTS
  Words,  \* the 32-bit words of user memory a thread may watch
  Values, \* the values such a word takes
  NULL    \* the null pointer

Page == [watch_mem : Words \cup {NULL}, watch_for : Values, watch_neq : {0, 1}]

\* auto_lock_alloc_mem() asks for __GFP_ZERO.
ZeroPage == [watch_mem |-> NULL, watch_for |-> 0, watch_neq |-> 0]

SetWatchMem(page, p) == [page EXCEPT !.watch_mem = p]
SetWatchFor(page, v) == [page EXCEPT !.watch_for = v]
SetWatchNeq(page, v) == [page EXCEPT !.watch_neq = v]

IsArmed(page) == page.watch_mem # NULL

(***************************************************************************)
(* What the scheduler answers about a task it did not just run: hold it    *)
(* back while the watched word differs from watch_for (watch_neq = 0) or   *)
(* equals it (watch_neq # 0).  An unarmed page never holds a task back.    *)
(***************************************************************************)
CheckMem(page, mem) ==
  LET differs == mem[page.watch_mem] # page.watch_for
  IN  IF page.watch_neq = 0 THEN differs ELSE ~differs

DontSched(page, mem) == IsArmed(page) /\ CheckMem(page, mem)
=============================================================================
