------------------------------ MODULE AuditLog ------------------------------
(***************************************************************************)
(* The audit log of src/src/audit.rs, and the two queries of               *)
(* src/src/api.rs that list a log: list_audit and, with the same helpers,  *)
(* list_account_transactions.  Actors and messages are left out, for no    *)
(* query looks at them.                                                    *)
(*                                                                         *)
(* An optional value is a set of at most one value.                        *)
(***************************************************************************)
EXTENDS Integers, Sequences, FiniteSets, SequencesExt

CONSTANTS
    Actions, Outcomes, Targets,
    Times,           \* what the clock may say: it may be set back
    MaxAuditId,      \* u64::MAX
    DefaultLimit,    \* 100
    MaxLimit,        \* 500
    MaxEntries,      \* bound: the entries of a log
    MaxLoaded        \* bound: the entries of a log that is loaded

ASSUME LogAssumption ==
    /\ Times \subseteq Nat
    /\ MaxAuditId \in Nat \ {0}
    /\ MaxLimit \in Nat /\ DefaultLimit \in 1..MaxLimit
    /\ MaxLoaded \in Nat

VARIABLES
    entries,
    next_id

vars == <<entries, next_id>>

Optional(S) == {{}} \cup {{x} : x \in S}

Entry == [id : Nat, occurred_at : Times, action : Actions, outcome : Outcomes,
          target : Optional(Targets)]

Ids(log) == {log[i].id : i \in DOMAIN log}

-----------------------------------------------------------------------------
(* Recording and loading.                                                  *)

\* The id that has no successor is refused.
Record(time, action, outcome, target) ==
    /\ Len(entries) < MaxEntries
    /\ next_id < MaxAuditId
    /\ entries' = Append(entries, [id |-> next_id, occurred_at |-> time, action |-> action,
                                   outcome |-> outcome, target |-> target])
    /\ next_id' = next_id + 1

\* `from_entries` accepts a log.
Accepts(log) ==
    /\ 0 \notin Ids(log)
    /\ \A i, j \in DOMAIN log : log[i].id = log[j].id => i = j
    /\ MaxAuditId \notin Ids(log)

\* Slip: the next id is that of the last entry and one.
FromEntriesAfterLast(log) ==
    /\ Accepts(log)
    /\ entries' = log
    /\ next_id' = IF log = << >> THEN 1 ELSE log[Len(log)].id + 1

\* The entries stay in the order in which they were read, whatever their ids.
FromEntries(log) ==
    /\ Accepts(log)
    /\ entries' = log
    /\ \E largest \in Ids(log) \cup {0} :
         /\ \A id \in Ids(log) : id <= largest
         /\ next_id' = largest + 1

-----------------------------------------------------------------------------
(* Queries.                                                                *)

Query == [action : Optional(Actions), outcome : Optional(Outcomes),
          target : Optional(Targets), from : Optional(Times), to : Optional(Times),
          limit : Optional(0..MaxLimit + 1), order : Optional({"Asc", "Desc"})]

Limit(q) == IF q.limit = {} THEN DefaultLimit ELSE CHOOSE n \in q.limit : TRUE

\* `validated_limit` and `validate_time_window`.
Valid(q) ==
    /\ Limit(q) \in 1..MaxLimit
    /\ \A from \in q.from, to \in q.to : from <= to

TimestampMatches(e, q) ==
    /\ \A from \in q.from : from <= e.occurred_at
    /\ \A to \in q.to : e.occurred_at <= to

AuditMatches(e, q) ==
    /\ q.action \subseteq {e.action}
    /\ q.outcome \subseteq {e.outcome}
    /\ q.target = {} \/ e.target = q.target
    /\ TimestampMatches(e, q)

\* A transaction has a kind in the place of an action, and nothing else but its
\* time that a query asks for.
TransactionMatches(e, q) == q.action \subseteq {e.action} /\ TimestampMatches(e, q)

\* The items of a log at the places in S, in the order of the log.
Filtered(log, S) ==
    LET first[n \in 0..Len(log)] ==
          IF n = 0 THEN << >>
          ELSE IF n \in S THEN Append(first[n - 1], log[n]) ELSE first[n - 1]
    IN  first[Len(log)]

\* Slip: the limit is applied before the order.
PageOfOldest(items, q) ==
    LET taken == SubSeq(items, 1, IF Limit(q) < Len(items) THEN Limit(q) ELSE Len(items))
    IN  IF q.order = {"Asc"} THEN taken ELSE Reverse(taken)

\* `ordered`, then `take`; a query that gives no order asks for the newest.
Page(items, q) ==
    LET all == IF q.order = {"Asc"} THEN items ELSE Reverse(items)
    IN  SubSeq(all, 1, IF Limit(q) < Len(all) THEN Limit(q) ELSE Len(all))

ListAudit(q) ==
    Page(Filtered(entries, {i \in DOMAIN entries : AuditMatches(entries[i], q)}), q)

ListTransactions(q) ==
    Page(Filtered(entries, {i \in DOMAIN entries : TransactionMatches(entries[i], q)}), q)

-----------------------------------------------------------------------------

Init == entries = << >> /\ next_id = 1

\* A log of a snapshot that somebody else has written, ids in any order.
Logs == UNION {[1..n -> [id : 0..MaxAuditId, occurred_at : Times, action : Actions,
                         outcome : Outcomes, target : {{}}]] : n \in 0..MaxLoaded}

Next ==
    \/ \E time \in Times, action \in Actions, outcome \in Outcomes,
          target \in Optional(Targets) : Record(time, action, outcome, target)
    \/ \E log \in Logs : FromEntries(log)

Spec == Init /\ [][Next]_vars

-----------------------------------------------------------------------------
(* Properties.                                                             *)

\* The log has entries with valid ids.
TypeOK ==
    /\ entries \in Seq(Entry)
    /\ next_id \in 1..MaxAuditId

\* The next id is new, whatever the order and the gaps of a log that was
\* loaded, so that the log is accepted when it is read again.
IdsStayUnique ==
    /\ Accepts(entries)
    /\ \A id \in Ids(entries) : id < next_id

\* Neither before the window nor after it.
Wanted(matching, q) ==
    {i \in matching :
       /\ ~\E from \in q.from : entries[i].occurred_at < from
       /\ ~\E to \in q.to : entries[i].occurred_at > to}

\* The k-th item of a page.
IsNth(i, k, wanted, q) ==
    LET before == {j \in wanted : IF q.order = {"Asc"} THEN j < i ELSE j > i}
    IN  i \in wanted /\ Cardinality(before) = k - 1

\* A page holds as many entries as the limit allows; those that it leaves out
\* come after all that it shows, in the order that was asked for.
PageIsExact(page, wanted, q) ==
    /\ Len(page) = IF Limit(q) < Cardinality(wanted) THEN Limit(q) ELSE Cardinality(wanted)
    /\ \A k \in DOMAIN page : \E i \in wanted : IsNth(i, k, wanted, q) /\ page[k] = entries[i]

\* Filter, window, order and limit work together: every page of the audit log
\* and of a history is exact.
PagesAreExact ==
    \A q \in Query : Valid(q) =>
      LET acting == {i \in DOMAIN entries : q.action = {} \/ entries[i].action \in q.action} IN
        /\ PageIsExact(ListTransactions(q), Wanted(acting, q), q)
        /\ PageIsExact(ListAudit(q),
                       Wanted({i \in acting :
                                 /\ q.outcome = {} \/ entries[i].outcome \in q.outcome
                                 /\ q.target = {} \/ entries[i].target \cap q.target # {}}, q),
                       q)

=============================================================================
