----------------------------- MODULE FeatureStore -----------------------------
(***************************************************************************)
(* What the writes of one collection promise to everybody who reads it:    *)
(* a single-feature request changes at most the row of one feature, and a  *)
(* batch shows up whole and at once, its last feature per id, or never.    *)
(***************************************************************************)
EXTENDS FeatureRow

CONSTANTS
    Collections, \* names of collections
    Resolved,    \* the resolved collections of those names
    Lists,       \* the feature arrays clients send to each of them
    Sessions     \* connections that run a batch

VARIABLES
    coll,   \* the collection
    plan,   \* the plan its functions were generated from
    table,  \* its committed rows: a function from the ids in use
    answer, \* what each session was answered: "ids", "error", "none" yet
    sent    \* the array each session works on, <<>> if none

Init ==
    /\ coll \in Collections
    /\ plan = TablePlan(Resolved[coll])
    /\ table = [i \in {} |-> Absent]
    /\ sent = [s \in Sessions |-> <<>>]
    /\ answer = [s \in Sessions |-> "none"]

\* The row of one id appears, changes or goes.
WriteOne ==
    /\ \E i \in Ids :
         /\ (DOMAIN table) \ {i} = (DOMAIN table') \ {i}
         /\ \A k \in (DOMAIN table) \ {i} : table'[k] = table[k]
    /\ UNCHANGED <<coll, plan, sent, answer>>

\* Which ids an array of features may get: the ones it names, and a new one
\* for every feature that names none, which nobody has so far.
AssignmentsTo(fs) ==
    {a \in [DOMAIN fs -> Ids] :
        \A n \in DOMAIN fs :
            LET named == NamedIds(plan, fs[n])
            IN  IF named # {} THEN a[n] \in named
                ELSE a[n] \notin DOMAIN table \cup {a[k] : k \in 1 .. n - 1}}

\* The last feature for an id wins.
Overwritten(fs, a) ==
    LET last(i) == CHOOSE n \in DOMAIN fs :
                      a[n] = i /\ \A k \in DOMAIN fs : a[k] = i => k <= n
    IN  [i \in DOMAIN table \cup {a[n] : n \in DOMAIN fs} |->
            IF i \in {a[n] : n \in DOMAIN fs}
            THEN FullRow(plan, fs[last(i)]) ELSE table[i]]

Begin(s) ==
    /\ sent[s] = <<>>
    /\ \E fs \in Lists[coll] : sent' = [sent EXCEPT ![s] = fs]
    /\ answer' = [answer EXCEPT ![s] = "none"]
    /\ UNCHANGED <<coll, plan, table>>

Answer(s, a) ==
    /\ sent[s] # <<>>
    /\ sent' = [sent EXCEPT ![s] = <<>>]
    /\ answer' = [answer EXCEPT ![s] = a]

WriteBatch(s) ==
    /\ Answer(s, "ids")
    /\ \E a \in AssignmentsTo(sent[s]) : table' = Overwritten(sent[s], a)
    /\ UNCHANGED <<coll, plan>>

Refuse(s) == Answer(s, "error") /\ UNCHANGED <<coll, plan, table>>

Next == WriteOne \/ \E s \in Sessions : Begin(s) \/ WriteBatch(s) \/ Refuse(s)

Spec == Init /\ [][Next]_<<coll, plan, table, answer, sent>>
=============================================================================
