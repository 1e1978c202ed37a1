---------------------------- MODULE MCBuildGraph ----------------------------
(* All dependencies among three items, and a pass-through in each of its   *)
(* uses, with two object-code types, one the parent of the other and with  *)
(* two platforms to select from, and the independent type; selectors of    *)
(* every sort.                                                             *)
EXTENDS BuildGraph, TLC

CONSTANTS native, embedded, p1, p2, e1

MCTypes == {native, embedded, Indep}
MCParent == [t \in MCTypes |-> IF t = embedded THEN native ELSE NoType]
MCPlatformsOf ==
  [t \in MCTypes |-> IF t = native THEN <<p1, p2>>
                     ELSE IF t = embedded THEN <<e1>> ELSE <<Indep>>]

Selector(type, matches, skip) ==
  [type |-> type, matches |-> matches, skip |-> skip, plain |-> FALSE]

UserSelectors ==
  {<<>>,
   native :> Selector(native, {p2}, FALSE),
   native :> Selector(native, {p1, p2}, FALSE),
   embedded :> Selector(embedded, {}, TRUE),
   ANY :> Selector(ANY, {p2}, FALSE)}

Wants ==
  {[Selector(native, {}, FALSE) EXCEPT !.plain = TRUE], Selector(native, {p2}, FALSE),
   [Selector(embedded, {}, FALSE) EXCEPT !.plain = TRUE]}

NoWants == [i \in Items |-> <<>>]
Wanting(dependents, deps) ==
  {NoWants} \cup
  {[NoWants EXCEPT ![i] = d :> w] : i \in dependents, d \in deps, w \in Wants}

Declared == {{}, {native}, {embedded}, {native, embedded}, {Indep}}

\* All dependencies among items 1 to 3 (item 4 has no platforms)
ThreeItems ==
  [deps : {deps \in [Items -> SUBSET Items] :
             /\ \A i \in Items : \A d \in deps[i] : d < i
             /\ deps[4] = {}},
   declared : {declared \in [Items -> Declared] : declared[4] = {}},
   wants : Wanting({2, 3}, {1, 2}), selectors : UserSelectors, keep_going : BOOLEAN]

\* Item 3 is a pass-through between item 4 and two others.
PassThrough ==
  [deps : {(1 :> {}) @@ (2 :> d2) @@ (3 :> {1, 2}) @@ (4 :> d4) :
             d2 \in SUBSET {1}, d4 \in {{3}, {2, 3}}},
   declared : {declared \in [Items -> Declared] :
                 declared[3] = {} /\ declared[1] # declared[2]},
   wants : Wanting({4}, {2}), selectors : UserSelectors, keep_going : {TRUE}]

MCInputs == ThreeItems \cup PassThrough
=============================================================================
