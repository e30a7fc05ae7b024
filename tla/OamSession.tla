----------------------------- MODULE OamSession -----------------------------
(***************************************************************************)
(* The session table of one stream (oam_session.c).  An entry holds the    *)
(* request, the connection it came from, the interval of its packets and,  *)
(* in place of the access time, the whole seconds since the last access.   *)
(* The program has sixteen entries; here their number is a constant.       *)
(***************************************************************************)
EXTENDS Integers, FiniteSets, FiniteSetsExt

CONSTANTS NSessions,  \* 16 in the program
          None        \* no request, no connection

ASSUME NSessionsAssumption == NSessions \in Nat \ {0}

Slots == 0 .. NSessions - 1

Free == [req |-> None, conn |-> None, interval |-> 1, silent |-> 0]

TimedOutEarly(s) == s.silent > 1  \* Mutant of session_timeouted: the interval is not waited for

(* access_time is one second ahead of the last access *)
session_timeouted(s) == s.silent > 1 + Max({1 + s.interval, 2})

(* What alloc_session_id looks for *)
Available(s) == s.req = None \/ session_timeouted(s)

(* The order in which the table is searched *)
Probe(last) == [k \in 0 .. NSessions - 1 |-> (last + 1 + k) % NSessions]

alloc_session_id(table, last) ==
  LET order == Probe(last)
      found == {k \in DOMAIN order : Available(table[order[k]])}
  IN IF found = {} THEN -1 ELSE order[Min(found)]

Allocated(table, id, r, conn, interval) ==
  [table EXCEPT ![id] = [req |-> r, conn |-> conn, interval |-> interval, silent |-> 0]]

(* session_recv and session_sent: neither takes the lock for the access *)
Accessed(table, id) == [table EXCEPT ![id].silent = 0]

(* The times of an entry without a request mean nothing *)
Cleared(table, id) == [table EXCEPT ![id] = Free]

stream_live_session_count(table) ==
  Cardinality({i \in DOMAIN table : table[i].req # None /\ ~session_timeouted(table[i])})

(* A second passes.  Above the longest timeout the number of seconds makes *)
(* no difference.                                                          *)
MaxSilent == 5
SecondPasses(table) ==
  [i \in DOMAIN table |->
     [table[i] EXCEPT !.silent = IF table[i].req # None /\ @ < MaxSilent THEN @ + 1 ELSE @]]
=============================================================================
