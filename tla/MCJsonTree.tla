----------------------------- MODULE MCJsonTree -----------------------------
(***************************************************************************)
(* What an application may have built before its calls on JSON trees are   *)
(* looked at.                                                              *)
(***************************************************************************)
EXTENDS JsonTree

CONSTANTS
    FromArray, FromObjects   \* bounds: calls after those that built something

\* [n, [], s], and another number
SomeArray ==
    LET h1 == CreateArrayOf(Empty, "Number", 1)
        h2 == CreateContainer(h1, "Array")
        h3 == CreateString(AddToArray(h2, h1.ret, h2.ret))
        h4 == AddToArray(h3, h1.ret, h3.ret)
        h5 == CreateNumber(h4)
    IN  Built(h5, {h1.ret, h5.ret}, FromArray)

\* {"a": n, "A": s} and {"A": s, "a": n}, where "A" is a literal
TwoObjects ==
    LET h1 == CreateContainer(Empty, "Object")
        h2 == AddNewToObject(h1, h1.ret, "a", "Number")
        h3 == CreateString(h2)
        h4 == AddToObject(h3, h1.ret, "A", h3.ret, TRUE)
        h5 == CreateContainer(h4, "Object")
        h6 == CreateString(h5)
        h7 == AddToObject(h6, h5.ret, "A", h6.ret, TRUE)
        h8 == AddNewToObject(h7, h5.ret, "a", "Number")
    IN  Built(h8, {h1.ret, h5.ret}, FromObjects)

ScenarioInit == Init \/ SomeArray \/ TwoObjects
=============================================================================
