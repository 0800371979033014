----------------------------- MODULE TicketLock -----------------------------
(***************************************************************************)
(* simple-ticket-lock-base.h: lock() draws a ticket from next_count and    *)
(* waits until cur_count shows it, unlock() advances cur_count.  Both are  *)
(* 32-bit words that wrap; COUNTS stands for 2^32.                         *)
(***************************************************************************)
EXTENDS QueueLock

CONSTANT COUNTS

CountsAssumption == COUNTS \in Nat /\ Cardinality(Threads) <= COUNTS

VARIABLES
  next_count, cur_count,
  ticket  \* ticket_num, the local of lock() and trylock()

vars == <<page, pc, next_count, cur_count, ticket>>

Counts == 0 .. COUNTS - 1
Succ(n) == IF n + 1 = COUNTS THEN 0 ELSE n + 1
Dist(a, b) == IF a <= b THEN b - a ELSE b + COUNTS - a

Kernel == INSTANCE AutolockPage WITH Words <- {"cur_count"}, Values <- Counts

Mem == [cur_count |-> cur_count]

TypeOK ==
  /\ page \in [Threads -> Kernel!Page]
  /\ pc \in [Threads -> {"idle", "try_first", "try_second", "try_cas", "draw", "first_load",
                         "set_mem", "set_for", "set_neq", "wait", "disarm", "holding"}]
  /\ next_count \in Counts /\ cur_count \in Counts
  /\ ticket \in [Threads -> Counts]

\* The counts are equal after any number of uncontended uses since init().
Init ==
  /\ page = [t \in Threads |-> Kernel!ZeroPage]
  /\ pc = [t \in Threads |-> "idle"]
  /\ next_count \in Counts /\ cur_count = next_count
  /\ ticket = [t \in Threads |-> 0]

-----------------------------------------------------------------------------
CallTrylock(t) == Goto(t, "idle", "try_first") /\ UNCHANGED <<page, next_count, cur_count, ticket>>

CallLock(t) == Goto(t, "idle", "draw") /\ UNCHANGED <<page, next_count, cur_count, ticket>>

TryLoadNext(t) ==
  /\ Goto(t, "try_first", "try_second")
  /\ ticket' = [ticket EXCEPT ![t] = next_count]
  /\ UNCHANGED <<page, next_count, cur_count>>

\* The locals go out of scope.
Return(t, from) ==
  /\ Goto(t, from, "idle")
  /\ ticket' = [ticket EXCEPT ![t] = 0]

TryLoadCur(t) ==
  /\ \/ ticket[t] = cur_count /\ Goto(t, "try_second", "try_cas") /\ UNCHANGED ticket
     \/ ticket[t] # cur_count /\ Return(t, "try_second")
  /\ UNCHANGED <<page, next_count, cur_count>>

\* Bound: no trylock() lasts while all 2^32 tickets are drawn.
NoFullTurn(t) ==
  \A u \in Threads \ {t} : pc[u] \in {"try_second", "try_cas"} => ticket[u] # Succ(next_count)

TryCas(t) ==
  /\ \/ /\ next_count = ticket[t] /\ NoFullTurn(t)
        /\ next_count' = Succ(next_count)
        /\ Goto(t, "try_cas", "holding") /\ UNCHANGED ticket
     \/ next_count # ticket[t] /\ Return(t, "try_cas") /\ UNCHANGED next_count
  /\ UNCHANGED <<page, cur_count>>

\* Mutant: the draw is a load and a store instead of a locked add, and the
\* store of another thread comes in between.
DrawNotAtomic(t) ==
  /\ Goto(t, "draw", "first_load") /\ NoFullTurn(t)
  /\ ticket' = [ticket EXCEPT ![t] = next_count]
  /\ next_count' \in {next_count, Succ(next_count)}
  /\ UNCHANGED <<page, cur_count>>

Draw(t) ==
  /\ Goto(t, "draw", "first_load") /\ NoFullTurn(t)
  /\ ticket' = [ticket EXCEPT ![t] = next_count]
  /\ next_count' = Succ(next_count)
  /\ UNCHANGED <<page, cur_count>>

FirstLoad(t) ==
  /\ Goto(t, "first_load", IF ticket[t] = cur_count THEN "holding" ELSE "set_mem")
  /\ UNCHANGED <<page, next_count, cur_count, ticket>>

\* The page is armed before watch_for holds the ticket.
SetMem(t) ==
  /\ Goto(t, "set_mem", "set_for")
  /\ page' = [page EXCEPT ![t] = Kernel!SetWatchMem(@, "cur_count")]
  /\ UNCHANGED <<next_count, cur_count, ticket>>

\* Mutant: the page waits for the count after the ticket.
SetForNext(t) ==
  /\ Goto(t, "set_for", "set_neq")
  /\ page' = [page EXCEPT ![t] = Kernel!SetWatchFor(@, Succ(ticket[t]))]
  /\ UNCHANGED <<next_count, cur_count, ticket>>

SetFor(t) ==
  /\ Goto(t, "set_for", "set_neq")
  /\ page' = [page EXCEPT ![t] = Kernel!SetWatchFor(@, ticket[t])]
  /\ UNCHANGED <<next_count, cur_count, ticket>>

SetNeq(t) ==
  /\ Goto(t, "set_neq", "wait")
  /\ page' = [page EXCEPT ![t] = Kernel!SetWatchNeq(@, 0)]
  /\ UNCHANGED <<next_count, cur_count, ticket>>

\* A turn of the loop; pauses and yields between turns change nothing here.
Wait(t) ==
  /\ Goto(t, "wait", IF ticket[t] = cur_count THEN "disarm" ELSE "wait")
  /\ UNCHANGED <<page, next_count, cur_count, ticket>>

\* Mutant: the page stays armed for the ticket that was just served.
DisarmForgotten(t) ==
  /\ Goto(t, "disarm", "holding")
  /\ UNCHANGED <<page, next_count, cur_count, ticket>>

Disarm(t) ==
  /\ Goto(t, "disarm", "holding")
  /\ page' = [page EXCEPT ![t] = Kernel!SetWatchMem(@, NULL)]
  /\ UNCHANGED <<next_count, cur_count, ticket>>

\* cur_count is written by its owner alone, so the plain += is one step.
Unlock(t) ==
  /\ Return(t, "holding")
  /\ cur_count' = Succ(cur_count)
  /\ UNCHANGED <<page, next_count>>

Step(t) ==
  \/ TryLoadNext(t) \/ TryLoadCur(t) \/ TryCas(t)
  \/ Draw(t) \/ FirstLoad(t)
  \/ SetMem(t) \/ SetFor(t) \/ SetNeq(t)
  \/ Wait(t) \/ Disarm(t) \/ Unlock(t)

Next == \E t \in Threads : CallTrylock(t) \/ CallLock(t) \/ Step(t)

Spec == Init /\ [][Next]_vars

Runnable(t) == ~Kernel!DontSched(page[t], Mem)

FairSpec == Spec /\ \A t \in Threads : WF_vars(Runnable(t) /\ Step(t))

-----------------------------------------------------------------------------
\* Threads that wait with a ticket.
InLine(t) == Waits(t) /\ pc[t] # "draw"

\* Before(t, u): t drew its ticket before u.
Before(t, u) == InLine(t) /\ InLine(u) /\ Dist(cur_count, ticket[t]) < Dist(cur_count, ticket[u])

\* watch_mem names the count, watch_for is what an earlier wait has left there.
HalfArmed(t) == pc[t] = "set_for"

\* The thread whose ticket is shown may take the lock.
ItsTurn(t) == InLine(t) /\ ticket[t] = cur_count
=============================================================================
