------------------------------- MODULE Resolver -------------------------------
(***************************************************************************)
(* resolv.c's table of names.  The hub only ever asks for one name, its     *)
(* server's: mine says that the entry holds it.  tmr and retries count      *)
(* while the entry is ASKING; they are 0 otherwise.  An answer has the      *)
(* server's address or an error.                                            *)
(***************************************************************************)
EXTENDS Integers, FiniteSetsExt

CONSTANTS
  RESOLV_ENTRIES,
  MAX_RETRIES,
  SeqnoMod        \* values of the 8-bit sequence number

ASSUME ResolverAssumption ==
  RESOLV_ENTRIES \in Nat \ {0} /\ MAX_RETRIES \in Nat \ {0} /\ SeqnoMod \in Nat \ {0}

Ids == 0..RESOLV_ENTRIES - 1    \* the index of an entry is its query's id
NameStates == {"NEW", "ASKING", "DONE", "ERROR"}
Answers == {"A", "error"}

NameTables ==
  [Ids -> [state : NameStates, tmr : 0..MAX_RETRIES, retries : 0..MAX_RETRIES,
           seq : 0..SeqnoMod - 1, mine : BOOLEAN]]

\* resolv_init: no entry is unused ever after.
resolv_init ==
  [i \in Ids |-> [state |-> "DONE", tmr |-> 0, retries |-> 0, seq |-> 0,
                  mine |-> FALSE]]

\* resolv_query's entry: the first with the greatest positive difference of
\* two bytes as an int; without one, entry 0.
LeastRecent(names, seqno) ==
  LET D(i) == seqno - names[i].seq
  IN IF \A i \in Ids : D(i) <= 0 THEN 0
     ELSE CHOOSE i \in Ids : \A j \in Ids : D(j) < D(i) \/ (D(j) = D(i) /\ i <= j)

resolv_query(names, seqno) ==
  [names EXCEPT ![LeastRecent(names, seqno)] =
     [@ EXCEPT !.state = "NEW", !.seq = seqno, !.mine = TRUE, !.tmr = 0, !.retries = 0]]

Finished(e) == e.state = "DONE" /\ e.mine
resolv_lookup(names) == \E i \in Ids : Finished(names[i])

\* check_entries goes through the table until an entry has a query to send.
RunsOut(e) == e.state = "ASKING" /\ e.tmr = 1
GivenUp(e) == RunsOut(e) /\ e.retries + 1 = MAX_RETRIES
Due(names) == {i \in Ids : names[i].state = "NEW"
                           \/ (RunsOut(names[i]) /\ ~GivenUp(names[i]))}
Asks(names, i) == Due(names) # {} /\ i = Min(Due(names))
Reached(names, i) == Due(names) = {} \/ i <= Min(Due(names))

Asked(e) ==
  IF e.state = "NEW" THEN [e EXCEPT !.state = "ASKING", !.tmr = 1, !.retries = 0]
  ELSE [e EXCEPT !.retries = @ + 1, !.tmr = e.retries + 1]
Waited(e) ==
  CASE GivenUp(e) -> [e EXCEPT !.state = "ERROR", !.retries = 0, !.tmr = 0]
    [] e.state = "ASKING" /\ ~GivenUp(e) -> [e EXCEPT !.tmr = @ - 1]
    [] OTHER -> e

check_entries(names) ==
  [i \in Ids |-> IF Asks(names, i) THEN Asked(names[i])
                 ELSE IF Reached(names, i) THEN Waited(names[i]) ELSE names[i]]
GaveUp(names) == \E i \in Ids : Reached(names, i) /\ GivenUp(names[i])

\* newdata: the answer's id is taken for an index, its question is not read.
Awaited(names, id) == names[id].state = "ASKING"
Answered(e, answer) ==
  [e EXCEPT !.state = IF answer = "error" THEN "ERROR" ELSE "DONE",
            !.tmr = 0, !.retries = 0]
newdata(names, id, answer) ==
  IF Awaited(names, id) THEN [names EXCEPT ![id] = Answered(@, answer)] ELSE names

=============================================================================
