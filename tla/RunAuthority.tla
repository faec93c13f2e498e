---------------------------- MODULE RunAuthority ----------------------------
(***************************************************************************)
(* What the product promises about authority, without threads, rows or     *)
(* requests: an action outside the routine ones is let through only after  *)
(* the user approved it, or granted its category to the run that proposed  *)
(* it; a decision is final; a grant follows an approval in its category.   *)
(* AgentRuns implements this specification when its requests come one at a *)
(* time (AgentRuns!ImplementsAuthority).                                   *)
(***************************************************************************)
CONSTANTS Runs, Actions, Categories, Category, Routine, Grantable, NoRun

VARIABLES
    owner,     \* the run that proposed each action
    decision,  \* "none" when nobody was asked, "undecided" until the user answers
    grants,    \* the categories the user granted to each run
    allowed    \* actions that were let through to their tool

avars == <<owner, decision, grants, allowed>>

Asked(r) == {a \in Actions : owner[a] = r /\ decision[a] = "undecided"}

Authorized(a) ==
    \/ a \in Routine
    \/ decision[a] = "approve"
    \/ owner[a] \in Runs /\ Category[a] \in grants[owner[a]]

\* A run proposes an action and the user is asked about it ...
Ask(r, a) ==
    /\ owner[a] = NoRun
    /\ owner' = [owner EXCEPT ![a] = r]
    /\ decision' = [decision EXCEPT ![a] = "undecided"]
    /\ UNCHANGED <<grants, allowed>>

\* ... or need not be.
Pass(r, a) ==
    /\ owner[a] = NoRun
    /\ a \in Routine \/ Category[a] \in grants[r]
    /\ owner' = [owner EXCEPT ![a] = r]
    /\ UNCHANGED <<decision, grants, allowed>>

\* The user answers some of the questions of one run.
Answer(r) ==
    \E A \in SUBSET Asked(r), d \in {"approve", "deny"} :
        /\ decision' = [a \in Actions |-> IF a \in A THEN d ELSE decision[a]]
        /\ UNCHANGED <<owner, grants, allowed>>

\* The user answers all questions of one category and grants it to the run.
GrantCategory(r, c) ==
    LET A == {a \in Asked(r) : Category[a] = c} IN
    /\ c \in Grantable /\ A # {}
    /\ decision' = [a \in Actions |-> IF a \in A THEN "approve" ELSE decision[a]]
    /\ grants' = [grants EXCEPT ![r] = @ \cup {c}]
    /\ UNCHANGED <<owner, allowed>>

\* Authorized actions of one run go to their tools.
Allow(r) ==
    \E A \in SUBSET {a \in Actions : owner[a] = r /\ Authorized(a)} :
        /\ allowed' = allowed \cup A
        /\ UNCHANGED <<owner, decision, grants>>

Init ==
    /\ owner = [a \in Actions |-> NoRun]
    /\ decision = [a \in Actions |-> "none"]
    /\ grants = [r \in Runs |-> {}]
    /\ allowed = {}

Next ==
    \E r \in Runs :
        \/ \E a \in Actions : Ask(r, a) \/ Pass(r, a)
        \/ Answer(r)
        \/ \E c \in Categories : GrantCategory(r, c)
        \/ Allow(r)

Spec == Init /\ [][Next]_avars
=============================================================================
