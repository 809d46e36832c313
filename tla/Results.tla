------------------------------- MODULE Results -------------------------------
(***************************************************************************)
(* Option and Result, as every component returns them: None, Good(value)   *)
(* or Bad(error), an error being its ErrorKind.                            *)
(***************************************************************************)
EXTENDS Sequences, SequencesExt

CONSTANT None   \* an absent attribute, path, resolver or value

Good(value) == [ok |-> TRUE, value |-> value]
Bad(error) == [ok |-> FALSE, error |-> error]

\* The elements at some indices, in their order.
Kept(s, keep) ==
  LET kept[i \in 0 .. Len(s)] ==
        IF i = 0 THEN <<>> ELSE IF i \in keep THEN Append(kept[i - 1], s[i]) ELSE kept[i - 1]
  IN  kept[Len(s)]

\* SelectSeq, by the indices it keeps.
Filter(s, Test(_)) == Kept(s, {i \in DOMAIN s : Test(s[i])})

\* One record of the fields of two, and of the first where both have one.
Joined(r, s) == [k \in DOMAIN r \cup DOMAIN s |-> IF k \in DOMAIN r THEN r[k] ELSE s[k]]

\* Steps that end in `?`: the first that fails is the result, otherwise the value.
Try(steps, value) ==
  LET failed == {i \in DOMAIN steps : ~steps[i].ok}
  IN  IF failed = {} THEN Good(value) ELSE steps[Min(failed)]

Check(condition, error) == IF condition THEN Good(None) ELSE Bad(error)

\* Results collected into one: of the values if there is no error.
Collect(results) == Try(results, [i \in DOMAIN results |-> results[i].value])

\* The same of a record of results, looked at in an order.
Fields(order, results) ==
  Try([i \in DOMAIN order |-> results[order[i]]], [k \in DOMAIN results |-> results[k].value])

AndThen(result, F(_)) == IF result.ok THEN F(result.value) ELSE result

MapOk(result, F(_)) == AndThen(result, LAMBDA value : Good(F(value)))

\* The result of each.
Each(texts, Parse(_)) == [i \in DOMAIN texts |-> Parse(texts[i])]

\* An optional attribute: absent, or parsed.
Optional(text, Parse(_)) == IF text = None THEN Good(None) ELSE Parse(text)

\* A required one.
Present(text, Parse(_)) == IF text = None THEN Bad("BadHeader") ELSE Parse(text)
=============================================================================
