-------------------------------- MODULE Labels --------------------------------
(***************************************************************************)
(* What a message's labels may look like, and what each reader makes of    *)
(* them: kick (taskiq_pg/broker.py) checks and resolves them, on_error     *)
(* (middlewares.py) reads max_retries with Python's int(), and the sweep   *)
(* (broker_queries.py) with a cast to PostgreSQL's INTEGER.                *)
(***************************************************************************)
EXTENDS Integers

CONSTANTS
    NoGroup,            \* no group_key label
    NoLabel             \* the label is not there

\* int: an integer of 32 bits.  text: the same, as text both readers take.
\* foreign: text only int() takes, as one with digits of another script.  huge:
\* an integer of more bits.  truth: "true" or "false" in any case.  word: text
\* that is neither.
Forms == {"int", "text", "foreign", "huge", "bool", "float", "truth", "word"}

Label == [form : Forms, value : Int]

\* _resolve_ordered: the values it does not raise on, and what it returns.
AdmitsOrdered(label) == label # NoLabel => label.form \in {"bool", "truth"}

ResolveOrdered(label) == label # NoLabel /\ label.value = 1

\* kick's test of max_retries.
AdmitsCap(label) == label # NoLabel => label.form \in {"int", "text", "foreign"}

Admits(labels) ==
    /\ AdmitsOrdered(labels.ordered)
    /\ ResolveOrdered(labels.ordered) => labels.group_key # NoGroup
    /\ AdmitsCap(labels.max_retries)

\* What the INSERT stores.
Resolved(labels) ==
    [group_key |-> labels.group_key, ordered |-> ResolveOrdered(labels.ordered),
     max_retries |-> labels.max_retries]

\* (labels ->> 'max_retries')::INTEGER does not raise.
Casts(label) == label # NoLabel => label.form \in {"int", "text"}
=============================================================================
