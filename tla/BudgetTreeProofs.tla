-------------------------- MODULE BudgetTreeProofs --------------------------
(***************************************************************************)
(* The budgets of a tree of sessions, for any number of sessions and       *)
(* proposals, any ceiling, grant and limits, and any number of usages,     *)
(* throws and restarts.                                                    *)
(*                                                                         *)
(* What a session has spent is in its log whatever overlaps.  What it has  *)
(* reserved, and what is left of its grant, are right as long as no two    *)
(* approved splits of one session are under way together; that condition   *)
(* is a premise of the theorems, not a part of the specification.          *)
(***************************************************************************)
EXTENDS BudgetTree, FiniteSetTheorems, TLAPS

----------------------------------------------------------------------------
(* The invariant                                                           *)

UnderWay == {"settling", "settled", "prepared", "created", "recorded"}

\* The split has a copy of its session's budget in hand.
Carries(p) == split[p].pc \in {"prepared", "created"}

\* No two approved splits of one session are under way together.
OneSplitAtATime ==
  \A p, q \in Proposal :
    /\ split[p].pc \in UnderWay /\ split[q].pc \in UnderWay
    /\ split[p].on = split[q].on
    => p = q

Copies == [tokenCeiling : 0..Ceiling, spent : Nat, reserved : Nat]
Places == {"new", "proposed", "asking", "settling", "settled", "prepared",
           "created", "recorded", "over"}
Splits == [pc : Places, on : Session, ceiling : 0..Ceiling,
           child : Child \cup {NoSession}, after : Budgets]

\* The values of each variable, where splits that overlap may reserve, and take
\* from the grant, more than there is; and a proposal asks for something
\* and has a child once it is created.
Shapes ==
  /\ exists \subseteq Session
  /\ parent \in [Session -> Session \cup {NoSession}]
  /\ budget \in [Session -> Copies]
  /\ folded \in [Session -> [spent : Nat, reserved : Nat]]
  /\ children \in [Session -> SUBSET Child]
  /\ unlogged \subseteq Child
  /\ remaining \in Int
  /\ turn \in [Session -> [running : BOOLEAN, used : Nat]]
  /\ split \in [Proposal -> Splits]
  /\ \A p \in Proposal :
       /\ split[p].pc # "new" => split[p].ceiling > 0
       /\ split[p].pc = "created" => split[p].child \in Child
  /\ auto \subseteq Proposal

\* The log has all the usage that the budget in memory, or a copy of it, has,
\* and that of the turn that runs besides.
UsageIsLogged ==
  /\ \A s \in Session : budget[s].spent + turn[s].used <= folded[s].spent
  /\ \A p \in Proposal : Carries(p) =>
       LET s == split[p].on
       IN  split[p].after.spent + turn[s].used <= folded[s].spent

\* Only sessions that exist have children or split; a child that is created and
\* not recorded yet is nobody's child, of no other split, and has the ceiling
\* of its own, and its event has not failed; a copy of a budget has the ceiling
\* of the budget.
FamiliesGrow ==
  /\ Root \in exists
  /\ unlogged \subseteq exists
  /\ \A s \in Session : children[s] \subseteq exists
  /\ \A s \in Session \ exists : children[s] = {}
  /\ \A p \in Proposal :
       /\ split[p].on \in exists
       /\ Carries(p) =>
            split[p].after.tokenCeiling = budget[split[p].on].tokenCeiling
       /\ split[p].pc = "created" =>
            /\ split[p].child \in exists \ unlogged
            /\ budget[split[p].child].tokenCeiling = split[p].ceiling
            /\ \A s \in Session : split[p].child \notin children[s]
  /\ \A p, q \in Proposal :
       /\ split[p].pc = "created" /\ split[q].pc = "created"
       /\ split[p].child = split[q].child
       => p = q

\* What is reserved in memory and in the log is what the children have that each
\* of them lists, and a copy has the reservation of its split on top.
Reservations ==
  /\ \A s \in Session :
       /\ folded[s].reserved = CeilingsOf(children[s] \ unlogged)
       /\ budget[s].reserved = CeilingsOf(children[s])
       /\ budget[s].reserved <= budget[s].tokenCeiling
  /\ \A p \in Proposal : Carries(p) =>
       /\ split[p].after.reserved
            = budget[split[p].on].reserved + split[p].ceiling
       /\ split[p].after.reserved <= split[p].after.tokenCeiling

Spawned == {p \in auto : split[p].child \notin {NoSession} \cup unlogged}

\* A child of the grant has been created, and the grant is not charged yet.
Owing(p) == p \in auto /\ split[p].pc \in {"created", "recorded"}

\* A split that the grant approved is one of the root, and as long as it is
\* under way the grant covers it; what was spawned and what is left are
\* together no more than the grant, but for a split that is still to be charged.
GrantLeft ==
  /\ remaining \in 0..Grant
  /\ \A p \in Proposal : split[p].child # NoSession =>
       split[p].pc \in {"created", "recorded", "over"}
  /\ \A p \in auto :
       /\ split[p].pc \in UnderWay \cup {"over"}
       /\ split[p].pc \in UnderWay => split[p].on = Root /\ remaining > 0
  /\ IsFiniteSet(Spawned)
  /\ Cardinality(Spawned) + remaining <= Grant + 1
  /\ (\A p \in Proposal : ~Owing(p))
       => Cardinality(Spawned) + remaining <= Grant

----------------------------------------------------------------------------
(* Sums of ceilings                                                        *)

\* What CeilingsOf counts, and the count, when f are the budgets.
TokensOf(f, S) == {t \in S \X (1..Ceiling) : t[2] <= f[t[1]].tokenCeiling}
SumOf(f, S) == Cardinality(TokensOf(f, S))

LEMMA TokensAreFinite ==
  ASSUME NEW f, NEW S, IsFiniteSet(S)
  PROVE  IsFiniteSet(TokensOf(f, S))
<1>1. IsFiniteSet(1..Ceiling)
  BY FS_Interval, BudgetAssumption
<1>2. IsFiniteSet(S \X (1..Ceiling))
  BY <1>1, FS_Product
<1>3. TokensOf(f, S) \in SUBSET (S \X (1..Ceiling))
  BY DEF TokensOf
<1> QED
  BY <1>2, <1>3, FS_Subset

\* Nobody has nothing.
LEMMA NoCeilings ==
  ASSUME NEW f
  PROVE  SumOf(f, {}) = 0
<1>1. TokensOf(f, {}) = {}
  BY DEF TokensOf
<1> QED
  BY <1>1, FS_EmptySet DEF SumOf

\* The tokens of one session.
LEMMA ColumnOfTokens ==
  ASSUME NEW c, NEW n \in Nat
  PROVE  IsFiniteSet({c} \X (1..n)) /\ Cardinality({c} \X (1..n)) = n
<1>1. IsFiniteSet({c}) /\ Cardinality({c}) = 1
  BY FS_Singleton
<1>2. IsFiniteSet(1..n) /\ Cardinality(1..n) = IF 1 > n THEN 0 ELSE n - 1 + 1
  BY 1 \in Int, n \in Int, FS_Interval, Zenon
<1>3. Cardinality(1..n) = n
  BY <1>2
<1>4. /\ IsFiniteSet({c} \X (1..n))
      /\ Cardinality({c} \X (1..n)) = Cardinality({c}) * Cardinality(1..n)
  BY <1>1, <1>2, FS_Product, Zenon
<1> QED
  BY <1>1, <1>3, <1>4

\* One more session adds its ceiling.
LEMMA OneMoreCeiling ==
  ASSUME NEW f, NEW S, IsFiniteSet(S), NEW c, c \notin S,
         f[c].tokenCeiling \in 0..Ceiling
  PROVE  SumOf(f, S \cup {c}) = SumOf(f, S) + f[c].tokenCeiling
<1> DEFINE n == f[c].tokenCeiling
           C == {c} \X (1..n)
           T == TokensOf(f, S)
<1>1. Ceiling \in Nat /\ n \in 0..Ceiling /\ n \in Nat
  BY BudgetAssumption
<1>2. TokensOf(f, S \cup {c}) = T \cup C /\ T \cap C = {}
  BY <1>1 DEF TokensOf
<1>3. IsFiniteSet(C) /\ Cardinality(C) = n
  BY <1>1, ColumnOfTokens, Zenon
<1>4. IsFiniteSet(T)
  BY TokensAreFinite
<1>5. Cardinality(T) \in Nat
  BY <1>4, FS_CardinalityType
<1>6. Cardinality(T \cup C)
        = Cardinality(T) + Cardinality(C) - Cardinality(T \cap C)
  BY <1>3, <1>4, FS_Union
<1>7. Cardinality(T \cap C) = 0
  BY <1>2, FS_EmptySet
<1> DEFINE a == Cardinality(T)
           b == Cardinality(T \cup C)
           d == Cardinality(T \cap C)
<1>8. b = a + n - d /\ d = 0 /\ a \in Nat /\ n \in Nat
  BY <1>1, <1>3, <1>5, <1>6, <1>7, Zenon
<1> HIDE DEF a, b, d, n
<1>9. b = a + n
  BY <1>8
<1> USE DEF a, b, n
<1> QED
  BY <1>2, <1>9, Zenon DEF SumOf

\* The sum depends on the ceilings of its members only.
LEMMA SameCeilings ==
  ASSUME NEW f, NEW g, NEW S,
         \A c \in S : g[c].tokenCeiling = f[c].tokenCeiling
  PROVE  SumOf(g, S) = SumOf(f, S)
<1>1. \A t \in S \X (1..Ceiling) : g[t[1]].tokenCeiling = f[t[1]].tokenCeiling
  OBVIOUS
<1>2. TokensOf(g, S) = TokensOf(f, S)
  BY <1>1 DEF TokensOf
<1> QED
  BY <1>2 DEF SumOf

\* Fewer sessions have no more.
LEMMA FewerCeilings ==
  ASSUME NEW f, NEW T, IsFiniteSet(T), NEW S \in SUBSET T
  PROVE  SumOf(f, S) <= SumOf(f, T)
<1>1. TokensOf(f, S) \in SUBSET TokensOf(f, T)
  BY DEF TokensOf
<1>2. IsFiniteSet(TokensOf(f, T))
  BY TokensAreFinite
<1> QED
  BY <1>1, <1>2, FS_Subset DEF SumOf

----------------------------------------------------------------------------
(* Shapes                                                                  *)

LEMMA InitShapes == Init => Shapes
  BY BudgetAssumption DEF Init, Shapes, FreshBudget, Copies, Splits, Budgets,
     Places, NoSplit, Idle, Session

\* What prepareChild computes is the budget of a session that reserves no more
\* than its ceiling.
LEMMA CopyIsBudget ==
  ASSUME NEW b \in Copies, NEW n \in 1..Ceiling, Reservable(b, n)
  PROVE  LET after == [b EXCEPT !.reserved = @ + n]
         IN  /\ after \in Budgets
             /\ after.tokenCeiling = b.tokenCeiling /\ after.spent = b.spent
             /\ after.reserved = b.reserved + n
             /\ after.reserved <= after.tokenCeiling
<1>1. Ceiling \in Nat
  BY BudgetAssumption
<1>2. /\ b.tokenCeiling \in 0..Ceiling /\ b.spent \in Nat /\ b.reserved \in Nat
  BY DEF Copies
<1>3. n <= b.tokenCeiling - b.spent - b.reserved
  BY <1>1, <1>2 DEF Reservable, Available
<1>4. b.reserved + n \in 0..Ceiling /\ b.reserved + n <= b.tokenCeiling
  BY <1>1, <1>2, <1>3
<1> QED
  BY <1>1, <1>2, <1>4 DEF Budgets, Copies

\* The part of Shapes that is about the splits.
ShapesOfSplits ==
  /\ split \in [Proposal -> Splits]
  /\ \A p \in Proposal :
       /\ split[p].pc # "new" => split[p].ceiling > 0
       /\ split[p].pc = "created" => split[p].child \in Child

\* One split changes.
LEMMA SplitShape ==
  ASSUME Shapes, NEW p \in Proposal, NEW x \in Splits,
         split' = [split EXCEPT ![p] = x],
         x.pc # "new" => x.ceiling > 0,
         x.pc = "created" => x.child \in Child
  PROVE  ShapesOfSplits'
  BY DEF Shapes, ShapesOfSplits

\* One split moves on.
LEMMA PlaceShape ==
  ASSUME Shapes, NEW p \in Proposal, split[p].pc # "new",
         NEW pc \in Places \ {"created"}, split' = [split EXCEPT ![p].pc = pc]
  PROVE  ShapesOfSplits'
<1> DEFINE x == [split[p] EXCEPT !.pc = pc]
<1>1. split[p] \in Splits /\ split[p].ceiling > 0
  BY DEF Shapes
<1>2. x \in Splits /\ x.ceiling > 0 /\ x.pc # "created"
  BY <1>1 DEF Splits
<1>3. split' = [split EXCEPT ![p] = x]
  BY DEF Shapes
<1> HIDE DEF x
<1> QED
  BY <1>2, <1>3, SplitShape

\* A split takes a copy of a budget.
LEMMA CopyShape ==
  ASSUME NEW x \in Splits, NEW after \in Budgets, x.ceiling > 0
  PROVE  LET y == [x EXCEPT !.pc = "prepared", !.after = after]
         IN  y \in Splits /\ y.ceiling > 0 /\ y.pc # "created"
<1>1. "prepared" \in Places
  BY DEF Places
<1> QED
  BY <1>1 DEF Splits

\* A session takes a child in.
LEMMA AdoptShape ==
  ASSUME Shapes, NEW p \in Proposal, Adopt(p)
  PROVE  /\ budget' \in [Session -> Copies]
         /\ children' \in [Session -> SUBSET Child]
         /\ UNCHANGED <<exists, parent, remaining, turn, auto>>
<1>1. split[p].on \in Session /\ split[p].after \in Copies
  BY BudgetAssumption DEF Shapes, Splits, Budgets, Copies
<1>2. split[p].child \in Child
  BY DEF Adopt, Shapes
<1> QED
  BY <1>1, <1>2 DEF Adopt, Shapes

LEMMA NextShapes ==
  ASSUME Shapes, [Next]_vars
  PROVE  Shapes'
<1> USE DEF treeVars, moneyVars, boundVars
<1>0. Ceiling \in Nat /\ Root \in Session /\ Child \subseteq Session
  BY BudgetAssumption DEF Session
<1>1. ASSUME NEW s \in Session, TurnStarts(s) PROVE Shapes'
  BY <1>1 DEF TurnStarts, Shapes
<1>2. ASSUME NEW s \in Session, Usage(s) PROVE Shapes'
  <2>1. /\ turn' = [turn EXCEPT ![s].used = @ + 1]
        /\ folded' = [folded EXCEPT ![s].spent = @ + 1]
        /\ UNCHANGED <<exists, parent, children, unlogged, budget, remaining,
                       split, auto>>
    BY <1>2 DEF Usage
  <2>2. turn' \in [Session -> [running : BOOLEAN, used : Nat]]
    BY <2>1 DEF Shapes
  <2>3. folded' \in [Session -> [spent : Nat, reserved : Nat]]
    BY <2>1 DEF Shapes
  <2> QED
    BY <2>1, <2>2, <2>3 DEF Shapes
<1>3. ASSUME NEW s \in Session, TurnEnds(s) PROVE Shapes'
  <2>1. Charged(s) \in Nat
    BY DEF Charged, Shapes, Copies
  <2> QED
    BY <1>3, <2>1 DEF TurnEnds, Shapes, Copies, Idle
<1>4. ASSUME NEW s \in Session, TurnThrows(s) PROVE Shapes'
  BY <1>4 DEF TurnThrows, Shapes, Idle
<1>5. ASSUME NEW p \in Proposal, Propose(p) PROVE Shapes'
  <2>1. PICK s \in exists, n \in 1..Ceiling :
          split' = [split EXCEPT
                      ![p] = [NoSplit EXCEPT !.pc = "proposed", !.on = s,
                                             !.ceiling = n]]
    BY <1>5 DEF Propose
  <2>2. [NoSplit EXCEPT !.pc = "proposed", !.on = s, !.ceiling = n] \in Splits
    <3>1. s \in Session /\ n \in 0..Ceiling /\ "proposed" \in Places
      BY <1>0 DEF Shapes, Places
    <3>2. NoSplit \in Splits
      BY <1>0 DEF NoSplit, Splits, Budgets, Places
    <3> QED
      BY <3>1, <3>2 DEF Splits
  <2>3. LET x == [NoSplit EXCEPT !.pc = "proposed", !.on = s, !.ceiling = n]
        IN  x.ceiling > 0 /\ x.pc # "created"
    BY <1>0 DEF NoSplit
  <2>4. ShapesOfSplits'
    BY <2>1, <2>2, <2>3, SplitShape
  <2> QED
    BY <1>5, <2>4 DEF Propose, Shapes, ShapesOfSplits
<1>6. ASSUME NEW p \in Proposal, Proposed(p) PROVE Shapes'
  <2>1. PICK pc \in {"settling", "asking"} :
          split' = [split EXCEPT ![p].pc = pc]
    BY <1>6 DEF Proposed
  <2>2. ShapesOfSplits'
    BY <1>6, <2>1, PlaceShape DEF Places, Proposed
  <2> QED
    BY <1>6, <2>2 DEF Proposed, Shapes, ShapesOfSplits
<1>7. ASSUME NEW p \in Proposal, Decide(p) PROVE Shapes'
  <2>1. PICK pc \in {"settling", "over"} : split' = [split EXCEPT ![p].pc = pc]
    BY <1>7 DEF Decide
  <2>2. ShapesOfSplits'
    BY <1>7, <2>1, PlaceShape DEF Places, Decide
  <2> QED
    BY <1>7, <2>2 DEF Decide, Shapes, ShapesOfSplits
<1>8. ASSUME NEW p \in Proposal, Settled(p) PROVE Shapes'
  <2>1. ShapesOfSplits'
    BY <1>8, PlaceShape DEF Places, Settled
  <2> QED
    BY <1>8, <2>1 DEF Settled, Shapes, ShapesOfSplits
<1>9. ASSUME NEW p \in Proposal, Prepare(p) PROVE Shapes'
  <2> DEFINE b == budget[split[p].on]
             after == [b EXCEPT !.reserved = @ + split[p].ceiling]
  <2>1. b \in Copies /\ split[p].ceiling \in 1..Ceiling
    <3>1. split[p] \in Splits /\ split[p].ceiling > 0
      BY <1>9 DEF Prepare, Shapes
    <3>2. split[p].on \in Session /\ split[p].ceiling \in 1..Ceiling
      BY <1>0, <3>1 DEF Splits
    <3> QED
      BY <3>2 DEF Shapes
  <2>2. CASE split' = [split EXCEPT ![p].pc = "over"]
    <3>1. ShapesOfSplits'
      BY <1>9, <2>2, PlaceShape DEF Places, Prepare
    <3> QED
      BY <1>9, <3>1 DEF Prepare, Shapes, ShapesOfSplits
  <2>3. CASE /\ Reservable(b, split[p].ceiling)
             /\ split' = [split EXCEPT ![p].pc = "prepared", ![p].after = after]
    <3>1. after \in Budgets
      BY <2>1, <2>3, CopyIsBudget
    <3> HIDE DEF after
    <3> DEFINE x == [split[p] EXCEPT !.pc = "prepared", !.after = after]
    <3>2. split[p] \in Splits /\ "prepared" \in Places
      BY DEF Shapes, Places
    <3>3. x \in Splits /\ x.ceiling > 0 /\ x.pc # "created"
      <4>1. split[p].ceiling > 0
        BY <2>1
      <4> QED
        BY <3>1, <3>2, <4>1, CopyShape DEF x
    <3>4. split' = [split EXCEPT ![p] = x]
      BY <2>3 DEF Shapes
    <3> HIDE DEF x
    <3>5. ShapesOfSplits'
      BY <3>3, <3>4, SplitShape
    <3> QED
      BY <1>9, <3>5 DEF Prepare, Shapes, ShapesOfSplits
  <2> QED
    BY <1>9, <2>2, <2>3 DEF Prepare
<1>10. ASSUME NEW p \in Proposal, Create(p) PROVE Shapes'
  <2>1. CASE split' = [split EXCEPT ![p].pc = "over"]
             /\ UNCHANGED <<exists, parent, budget>>
    <3>1. ShapesOfSplits'
      BY <1>10, <2>1, PlaceShape DEF Places, Create
    <3> QED
      BY <1>10, <2>1, <3>1 DEF Create, Shapes, ShapesOfSplits
  <2>2. ASSUME NEW c \in Child \ exists,
               exists' = exists \cup {c},
               parent' = [parent EXCEPT ![c] = split[p].on],
               budget' = [budget EXCEPT ![c] = FreshBudget(split[p].ceiling)],
               split' = [split EXCEPT ![p].pc = "created", ![p].child = c]
        PROVE  Shapes'
    <3>1. FreshBudget(split[p].ceiling) \in Copies /\ split[p].on \in Session
      BY <1>0 DEF FreshBudget, Copies, Shapes, Splits
    <3> DEFINE x == [split[p] EXCEPT !.pc = "created", !.child = c]
    <3>2. split[p] \in Splits /\ "created" \in Places /\ split[p].ceiling > 0
      BY <1>10 DEF Create, Shapes, Places
    <3>3. x \in Splits /\ x.ceiling > 0 /\ x.child \in Child
      BY <3>2 DEF Splits
    <3>4. split' = [split EXCEPT ![p] = x]
      BY <2>2 DEF Shapes
    <3> HIDE DEF x
    <3>5. ShapesOfSplits'
      BY <3>3, <3>4, SplitShape
    <3> QED
      <4>1. /\ exists' \subseteq Session /\ c \in Session
            /\ UNCHANGED <<children, unlogged, folded, remaining, turn, auto>>
        <5>1. exists \subseteq Session
          BY DEF Shapes
        <5>2. UNCHANGED <<children, unlogged, folded, remaining, turn, auto>>
          BY <1>10, Zenon DEF Create
        <5> QED
          BY <1>0, <2>2, <5>1, <5>2
      <4>2. budget' \in [Session -> Copies]
        BY <2>2, <3>1, <4>1 DEF Shapes
      <4>3. parent' \in [Session -> Session \cup {NoSession}]
        BY <2>2, <3>1, <4>1 DEF Shapes
      <4> QED
        BY <3>5, <4>1, <4>2, <4>3 DEF Shapes, ShapesOfSplits
  <2> QED
    BY <1>10, <2>1, <2>2 DEF Create
<1>11. ASSUME NEW p \in Proposal, Record(p) PROVE Shapes'
  <2>1. /\ split[p].on \in Session /\ split[p].after \in Copies
        /\ split[p].after.reserved \in Nat
    BY <1>0 DEF Shapes, Splits, Budgets, Copies
  <2>2. ShapesOfSplits'
    BY <1>11, PlaceShape DEF Places, Record, Adopt
  <2>3. budget[split[p].on].reserved \in Nat
    BY <2>1 DEF Shapes, Copies
  <2>4. (IF ReservedNow(p) > 0 THEN ReservedNow(p) ELSE 0) \in Nat
    BY <2>1, <2>3 DEF ReservedNow
  <2>5. folded' \in [Session -> [spent : Nat, reserved : Nat]]
    <3> DEFINE n == IF ReservedNow(p) > 0 THEN ReservedNow(p) ELSE 0
    <3>1. folded' = [folded EXCEPT ![split[p].on].reserved = @ + n]
      BY <1>11 DEF Record
    <3> HIDE DEF n
    <3>2. n \in Nat
      BY <2>4 DEF n
    <3>3. ASSUME NEW s \in Session
          PROVE  [folded[s] EXCEPT !.reserved = @ + n]
                   \in [spent : Nat, reserved : Nat]
      <4>1. folded[s] \in [spent : Nat, reserved : Nat]
        BY DEF Shapes
      <4> QED
        BY <3>2, <4>1
    <3>4. folded \in [Session -> [spent : Nat, reserved : Nat]]
      BY DEF Shapes
    <3> QED
      BY <2>1, <3>1, <3>3, <3>4
  <2> QED
    BY <1>11, <2>2, <2>5, AdoptShape DEF Record, Shapes, ShapesOfSplits
<1>15. ASSUME NEW p \in Proposal, RecordFails(p) PROVE Shapes'
  <2>1. ShapesOfSplits'
    BY <1>15, PlaceShape DEF Places, RecordFails, Adopt
  <2>2. split[p].child \in Child
    BY <1>15 DEF RecordFails, Adopt, Shapes
  <2> QED
    BY <1>15, <2>1, <2>2, AdoptShape DEF RecordFails, Shapes, ShapesOfSplits
<1>12. ASSUME NEW p \in Proposal, SpawnReturns(p) PROVE Shapes'
  <2>1. ShapesOfSplits'
    BY <1>12, PlaceShape DEF Places, SpawnReturns
  <2> QED
    BY <1>12, <2>1 DEF SpawnReturns, RemainingAfter, Shapes, ShapesOfSplits
<1>13. ASSUME Restart PROVE Shapes'
  <2>1. ShapesOfSplits'
    <3>1. ASSUME NEW q \in Proposal
          PROVE  /\ split'[q] \in Splits
                 /\ split'[q].pc # "new" => split'[q].ceiling > 0
                 /\ split'[q].pc # "created"
      <4>1. split[q] \in Splits /\ (split[q].pc # "new" => split[q].ceiling > 0)
        BY DEF Shapes
      <4>2. split'[q] = IF split[q].pc = "new" THEN split[q]
                        ELSE [split[q] EXCEPT !.pc = "over"]
        BY <1>13 DEF Restart
      <4> QED
        BY <4>1, <4>2 DEF Splits, Places
    <3>2. split' \in [Proposal -> Splits]
      BY <1>13, <3>1 DEF Restart
    <3> QED
      BY <3>1, <3>2 DEF ShapesOfSplits
  <2>2. budget' \in [Session -> Copies]
    <3>1. ASSUME NEW s \in Session PROVE budget'[s] \in Copies
      <4>1. budget[s] \in Copies /\ folded[s] \in [spent : Nat, reserved : Nat]
        BY DEF Shapes
      <4>2. budget'[s] = [budget[s] EXCEPT !.spent = folded[s].spent,
                                           !.reserved = folded[s].reserved]
        BY <1>13 DEF Restart
      <4> QED
        BY <4>1, <4>2 DEF Copies
    <3> QED
      BY <1>13, <3>1 DEF Restart
  <2>3. /\ remaining' \in Int
        /\ turn' \in [Session -> [running : BOOLEAN, used : Nat]]
    <3>1. Idle \in [running : BOOLEAN, used : Nat]
      BY DEF Idle
    <3>2. remaining' = 0 /\ turn' = [s \in Session |-> Idle]
      BY <1>13 DEF Restart
    <3> HIDE DEF Idle
    <3> QED
      BY <3>1, <3>2
  <2>4. children' \in [Session -> SUBSET Child]
    BY <1>13 DEF Restart, Shapes
  <2> QED
    BY <1>13, <2>1, <2>2, <2>3, <2>4 DEF Restart, Shapes, ShapesOfSplits
<1>14. CASE UNCHANGED vars
  BY <1>14 DEF vars, Shapes
<1> QED
  BY <1>1, <1>2, <1>3, <1>4, <1>5, <1>6, <1>7, <1>8, <1>9, <1>10, <1>11,
     <1>12, <1>13, <1>14, <1>15 DEF Next
----------------------------------------------------------------------------
(* What was spent                                                          *)

LEMMA InitUsage == Init => UsageIsLogged
  BY BudgetAssumption DEF Init, UsageIsLogged, FreshBudget, Idle, NoSplit,
     Carries

\* The usage of sessions and of the copies of their budgets, as numbers.
LEMMA UsageNumbers ==
  ASSUME Shapes
  PROVE  /\ \A s \in Session : /\ budget[s].spent \in Nat
                               /\ turn[s].used \in Nat
                               /\ folded[s].spent \in Nat
         /\ \A p \in Proposal : /\ split[p].on \in Session
                                /\ split[p].after.spent \in Nat
  BY DEF Shapes, Copies, Splits, Budgets

\* A step that moves splits only, and lets none take a copy.
LEMMA SplitKeepsUsage ==
  ASSUME UsageIsLogged, UNCHANGED <<budget, folded, turn>>,
         \A p \in Proposal : Carries(p)' =>
           /\ Carries(p)
           /\ split'[p].on = split[p].on /\ split'[p].after = split[p].after
  PROVE  UsageIsLogged'
  BY DEF UsageIsLogged

\* A session takes a child in, and a copy of its budget.
LEMMA AdoptKeepsUsage ==
  ASSUME Shapes, UsageIsLogged, NEW p \in Proposal, Adopt(p),
         NEW pc \in {"recorded", "over"}, split' = [split EXCEPT ![p].pc = pc],
         \A s \in Session : folded'[s].spent = folded[s].spent
  PROVE  UsageIsLogged'
<1>1. /\ UNCHANGED turn
      /\ \A q \in Proposal : Carries(q)' =>
           /\ Carries(q)
           /\ split'[q].on = split[q].on /\ split'[q].after = split[q].after
      /\ Carries(p)
      /\ \A s \in Session :
           budget'[s].spent = IF s = split[p].on THEN split[p].after.spent
                              ELSE budget[s].spent
  BY DEF Adopt, Shapes, Splits, Carries
<1> QED
  BY <1>1, UsageNumbers DEF UsageIsLogged

LEMMA NextUsage ==
  ASSUME Shapes, UsageIsLogged, [Next]_vars
  PROVE  UsageIsLogged'
<1> USE DEF treeVars, moneyVars, boundVars
<1>0. /\ \A s \in Session : /\ budget[s].spent \in Nat
                            /\ turn[s].used \in Nat
                            /\ folded[s].spent \in Nat
      /\ \A p \in Proposal : /\ split[p].on \in Session
                             /\ split[p].after.spent \in Nat
  BY UsageNumbers
<1>1. ASSUME NEW s \in Session, TurnStarts(s) PROVE UsageIsLogged'
  <2>1. /\ UNCHANGED <<budget, folded, split>>
        /\ \A r \in Session : turn'[r].used = IF r = s THEN 0 ELSE turn[r].used
    BY <1>1 DEF TurnStarts, Shapes
  <2> QED
    BY <1>0, <2>1 DEF UsageIsLogged, Carries
<1>2. ASSUME NEW s \in Session, Usage(s) PROVE UsageIsLogged'
  <2>1. /\ UNCHANGED <<budget, split>>
        /\ \A r \in Session :
             /\ turn'[r].used = IF r = s THEN turn[r].used + 1 ELSE turn[r].used
             /\ folded'[r].spent = IF r = s THEN folded[r].spent + 1
                                   ELSE folded[r].spent
    BY <1>2 DEF Usage, Shapes
  <2> QED
    BY <1>0, <2>1 DEF UsageIsLogged, Carries
<1>3. ASSUME NEW s \in Session, TurnEnds(s) PROVE UsageIsLogged'
  <2>1. /\ UNCHANGED <<folded, split>>
        /\ \A r \in Session :
             /\ turn'[r].used = IF r = s THEN 0 ELSE turn[r].used
             /\ budget'[r].spent = IF r = s THEN budget[r].spent + turn[r].used
                                   ELSE budget[r].spent
    BY <1>3 DEF TurnEnds, Charged, Idle, Shapes, Copies
  <2> QED
    BY <1>0, <2>1 DEF UsageIsLogged, Carries
<1>4. ASSUME NEW s \in Session, TurnThrows(s) PROVE UsageIsLogged'
  <2>1. /\ UNCHANGED <<budget, folded, split>>
        /\ \A r \in Session : turn'[r].used = IF r = s THEN 0 ELSE turn[r].used
    BY <1>4 DEF TurnThrows, Idle, Shapes
  <2> QED
    BY <1>0, <2>1 DEF UsageIsLogged, Carries
<1>5. ASSUME NEW p \in Proposal, Propose(p) PROVE UsageIsLogged'
  BY <1>5, SplitKeepsUsage DEF Propose, Shapes, Carries, NoSplit
<1>6. ASSUME NEW p \in Proposal, Proposed(p) PROVE UsageIsLogged'
  BY <1>6, SplitKeepsUsage DEF Proposed, Shapes, Splits, Carries
<1>7. ASSUME NEW p \in Proposal, Decide(p) PROVE UsageIsLogged'
  BY <1>7, SplitKeepsUsage DEF Decide, Shapes, Splits, Carries
<1>8. ASSUME NEW p \in Proposal, Settled(p) PROVE UsageIsLogged'
  BY <1>8, SplitKeepsUsage DEF Settled, Shapes, Splits, Carries
<1>9. ASSUME NEW p \in Proposal, Prepare(p) PROVE UsageIsLogged'
  <2>1. /\ UNCHANGED <<budget, folded, turn>>
        /\ \/ split' = [split EXCEPT
                        ![p].pc = "prepared",
                        ![p].after = [budget[split[p].on] EXCEPT
                                        !.reserved = @ + split[p].ceiling]]
           \/ split' = [split EXCEPT ![p].pc = "over"]
    BY <1>9, Zenon DEF Prepare
  <2>2. /\ DOMAIN split = Proposal
        /\ DOMAIN split[p] = {"pc", "on", "ceiling", "child", "after"}
        /\ DOMAIN budget[split[p].on] = {"tokenCeiling", "spent", "reserved"}
    BY <1>0 DEF Shapes, Splits, Copies
  <2>3. \A q \in Proposal :
          /\ split'[q].on = split[q].on
          /\ q # p => split'[q] = split[q]
    <3>1. CASE split' = [split EXCEPT ![p].pc = "over"]
      BY <3>1, <2>2
    <3>2. CASE split' = [split EXCEPT
                           ![p].pc = "prepared",
                           ![p].after = [budget[split[p].on] EXCEPT
                                           !.reserved = @ + split[p].ceiling]]
      BY <3>2, <2>2
    <3> QED
      BY <2>1, <3>1, <3>2
  <2>4. split'[p].pc \in {"prepared", "created"}
          => split'[p].after.spent = budget[split[p].on].spent
    <3>1. CASE split' = [split EXCEPT ![p].pc = "over"]
      BY <3>1, <2>2
    <3>2. CASE split' = [split EXCEPT
                           ![p].pc = "prepared",
                           ![p].after = [budget[split[p].on] EXCEPT
                                           !.reserved = @ + split[p].ceiling]]
      BY <3>2, <2>2
    <3> QED
      BY <2>1, <3>1, <3>2
  <2>5. /\ budget' = budget /\ folded' = folded /\ turn' = turn
    BY <2>1
  <2>6. \A s \in Session : budget[s].spent + turn[s].used <= folded[s].spent
    BY DEF UsageIsLogged
  <2>7. ASSUME NEW q \in Proposal, Carries(q)'
        PROVE  split'[q].after.spent + turn[split'[q].on].used
                 <= folded[split'[q].on].spent
    <3>1. CASE q = p
      <4>1. split'[p].after.spent = budget[split[p].on].spent
        BY <2>4, <2>7, <3>1 DEF Carries
      <4>2. split'[p].on = split[p].on /\ split[p].on \in Session
        BY <1>0, <2>3
      <4>3. budget[split[p].on].spent + turn[split[p].on].used
              <= folded[split[p].on].spent
        BY <2>6, <4>2
      <4>4. split'[p].after.spent + turn[split'[p].on].used
              <= folded[split'[p].on].spent
        BY <4>1, <4>2, <4>3
      <4> QED
        BY <3>1, <4>4
    <3>2. CASE q # p
      <4>1. split'[q] = split[q]
        BY <2>3, <3>2
      <4>2. Carries(q)
        BY <2>7, <4>1 DEF Carries
      <4> QED
        BY <1>0, <4>1, <4>2 DEF UsageIsLogged
    <3> QED
      BY <3>1, <3>2
  <2> QED
    BY <1>0, <2>5, <2>6, <2>7 DEF UsageIsLogged
<1>10. ASSUME NEW p \in Proposal, Create(p) PROVE UsageIsLogged'
  <2>1. /\ UNCHANGED <<folded, turn>>
        /\ \A q \in Proposal : Carries(q)' =>
             /\ Carries(q)
             /\ split'[q].on = split[q].on /\ split'[q].after = split[q].after
    <3>1. \/ \E c \in Child :
               split' = [split EXCEPT ![p].pc = "created", ![p].child = c]
          \/ split' = [split EXCEPT ![p].pc = "over"]
      BY <1>10, Zenon DEF Create
    <3>2. /\ \A q \in Proposal \ {p} : split'[q] = split[q]
          /\ split'[p].on = split[p].on /\ split'[p].after = split[p].after
      BY <3>1 DEF Shapes, Splits
    <3> QED
      BY <1>10, <3>2 DEF Create, Carries
  <2>2. \A s \in Session : budget'[s].spent \in {0, budget[s].spent}
    <3>1. \/ UNCHANGED budget
          \/ \E c \in Child : budget' = [budget EXCEPT
                                        ![c] = FreshBudget(split[p].ceiling)]
      BY <1>10 DEF Create
    <3>2. FreshBudget(split[p].ceiling).spent = 0
      BY DEF FreshBudget
    <3> QED
      BY <3>1, <3>2 DEF Shapes
  <2> QED
    BY <1>0, <2>1, <2>2 DEF UsageIsLogged
<1>11. ASSUME NEW p \in Proposal, Record(p) PROVE UsageIsLogged'
  <2>1. \A s \in Session : folded'[s].spent = folded[s].spent
    BY <1>11 DEF Record, Shapes
  <2>2. Adopt(p) /\ split' = [split EXCEPT ![p].pc = "recorded"]
    BY <1>11 DEF Record
  <2> QED
    BY <2>1, <2>2, AdoptKeepsUsage
<1>15. ASSUME NEW p \in Proposal, RecordFails(p) PROVE UsageIsLogged'
  <2>1. /\ Adopt(p) /\ split' = [split EXCEPT ![p].pc = "over"]
        /\ UNCHANGED folded
    BY <1>15 DEF RecordFails
  <2> QED
    BY <2>1, AdoptKeepsUsage
<1>12. ASSUME NEW p \in Proposal, SpawnReturns(p) PROVE UsageIsLogged'
  BY <1>12, SplitKeepsUsage DEF SpawnReturns, Shapes, Splits, Carries
<1>13. ASSUME Restart PROVE UsageIsLogged'
  <2>1. /\ UNCHANGED folded
        /\ \A q \in Proposal : ~Carries(q)'
        /\ \A s \in Session : /\ budget'[s].spent = folded[s].spent
                              /\ turn'[s].used = 0
    <3>1. \A q \in Proposal : ~Carries(q)'
      BY <1>13 DEF Restart, Shapes, Splits, Carries
    <3>2. \A s \in Session : budget'[s].spent = folded[s].spent
      BY <1>13 DEF Restart, Shapes, Copies
    <3>3. \A s \in Session : turn'[s].used = 0
      BY <1>13 DEF Restart, Idle
    <3> QED
      BY <1>13, <3>1, <3>2, <3>3 DEF Restart
  <2> QED
    BY <1>0, <2>1 DEF UsageIsLogged
<1>14. CASE UNCHANGED vars
  BY <1>14 DEF vars, UsageIsLogged, Carries
<1> QED
  BY <1>1, <1>2, <1>3, <1>4, <1>5, <1>6, <1>7, <1>8, <1>9, <1>10, <1>11,
     <1>12, <1>13, <1>14, <1>15 DEF Next

\* The log has what a session has spent, whatever overlaps: a restart never
\* gives back less than what the budget in memory was charged with.
THEOREM UsageIsKept ==
  Spec => [](\A s \in Session : budget[s].spent <= folded[s].spent)
<1>1. Init => Shapes /\ UsageIsLogged
  BY InitShapes, InitUsage
<1>2. Shapes /\ UsageIsLogged /\ [Next]_vars => (Shapes /\ UsageIsLogged)'
  BY NextShapes, NextUsage
<1>3. Shapes /\ UsageIsLogged
        => \A s \in Session : budget[s].spent <= folded[s].spent
  BY UsageNumbers DEF UsageIsLogged
<1> QED
  BY <1>1, <1>2, <1>3, PTL DEF Spec

----------------------------------------------------------------------------
(* Families                                                                *)

\* Of split p only its place changes, and of the others nothing.
Moves(p) ==
  /\ \A q \in Proposal \ {p} : split'[q] = split[q]
  /\ split'[p].on = split[p].on /\ split'[p].ceiling = split[p].ceiling
  /\ split'[p].child = split[p].child /\ split'[p].after = split[p].after

LEMMA PlaceMoves ==
  ASSUME Shapes, NEW p \in Proposal, NEW pc,
         split' = [split EXCEPT ![p].pc = pc]
  PROVE  Moves(p) /\ split'[p].pc = pc
  BY DEF Shapes, Splits, Moves

\* The steps that touch splits, as what they do to each of them.
LEMMA ProposedMoves ==
  ASSUME Shapes, NEW p \in Proposal, Proposed(p)
  PROVE  Moves(p) /\ split'[p].pc \in {"settling", "asking"}
<1>1. PICK pc \in {"settling", "asking"} : split' = [split EXCEPT ![p].pc = pc]
  BY DEF Proposed
<1> QED
  BY <1>1, PlaceMoves

LEMMA DecideMoves ==
  ASSUME Shapes, NEW p \in Proposal, Decide(p)
  PROVE  Moves(p) /\ split'[p].pc \in {"settling", "over"}
<1>1. PICK pc \in {"settling", "over"} : split' = [split EXCEPT ![p].pc = pc]
  BY DEF Decide
<1> QED
  BY <1>1, PlaceMoves

LEMMA SettledMoves ==
  ASSUME Shapes, NEW p \in Proposal, Settled(p)
  PROVE  Moves(p) /\ split'[p].pc = "settled"
  BY PlaceMoves DEF Settled

LEMMA RecordMoves ==
  ASSUME Shapes, NEW p \in Proposal, Record(p)
  PROVE  Moves(p) /\ split'[p].pc = "recorded"
  BY PlaceMoves DEF Record

LEMMA RecordFailsMoves ==
  ASSUME Shapes, NEW p \in Proposal, RecordFails(p)
  PROVE  Moves(p) /\ split'[p].pc = "over"
  BY PlaceMoves DEF RecordFails

LEMMA SpawnReturnsMoves ==
  ASSUME Shapes, NEW p \in Proposal, SpawnReturns(p)
  PROVE  Moves(p) /\ split'[p].pc = "over"
  BY PlaceMoves DEF SpawnReturns

\* A split that is prepared has a copy of the budget as it is now.
LEMMA PrepareMoves ==
  ASSUME Shapes, NEW p \in Proposal, Prepare(p)
  PROVE  \/ Moves(p) /\ split'[p].pc = "over"
         \/ /\ \A q \in Proposal \ {p} : split'[q] = split[q]
            /\ split'[p].pc = "prepared" /\ split'[p].on = split[p].on
            /\ split'[p].ceiling = split[p].ceiling
            /\ split'[p].child = split[p].child
            /\ LET b == budget[split[p].on]
                   a == split'[p].after
               IN  /\ a.tokenCeiling = b.tokenCeiling
                   /\ a.reserved = b.reserved + split[p].ceiling
                   /\ a.reserved <= a.tokenCeiling
<1> DEFINE b == budget[split[p].on]
           after == [b EXCEPT !.reserved = @ + split[p].ceiling]
<1>1. CASE split' = [split EXCEPT ![p].pc = "over"]
  BY <1>1, PlaceMoves
<1>2. CASE /\ Reservable(b, split[p].ceiling)
           /\ split' = [split EXCEPT ![p].pc = "prepared", ![p].after = after]
  <2>1. split[p] \in Splits /\ split[p].ceiling > 0
    BY DEF Shapes, Prepare
  <2>2. split[p].on \in Session /\ split[p].ceiling \in 1..Ceiling
    BY <2>1, BudgetAssumption DEF Splits
  <2>3. b \in Copies
    BY <2>2 DEF Shapes
  <2>4. /\ after.tokenCeiling = b.tokenCeiling
        /\ after.reserved = b.reserved + split[p].ceiling
        /\ after.reserved <= after.tokenCeiling
    BY <1>2, <2>2, <2>3, CopyIsBudget
  <2> HIDE DEF after
  <2>5. /\ \A q \in Proposal \ {p} : split'[q] = split[q]
        /\ split'[p] = [split[p] EXCEPT !.pc = "prepared", !.after = after]
    BY <1>2 DEF Shapes
  <2>6. /\ split'[p].pc = "prepared" /\ split'[p].on = split[p].on
        /\ split'[p].ceiling = split[p].ceiling
        /\ split'[p].child = split[p].child /\ split'[p].after = after
    BY <2>1, <2>5 DEF Splits
  <2> QED
    BY <2>4, <2>5, <2>6
<1> QED
  BY <1>1, <1>2 DEF Prepare

\* A split that creates a child is the only one that is about it.
LEMMA CreateMoves ==
  ASSUME Shapes, NEW p \in Proposal, Create(p)
  PROVE  \/ /\ Moves(p) /\ split'[p].pc = "over"
            /\ UNCHANGED <<exists, budget>>
         \/ \E c \in Child \ exists :
              /\ \A q \in Proposal \ {p} : split'[q] = split[q]
              /\ split'[p].pc = "created" /\ split'[p].child = c
              /\ split'[p].on = split[p].on
              /\ split'[p].ceiling = split[p].ceiling
              /\ split'[p].after = split[p].after
              /\ exists' = exists \cup {c}
              /\ \A s \in Session \ {c} : budget'[s] = budget[s]
              /\ budget'[c].tokenCeiling = split[p].ceiling
              /\ budget'[c].reserved = 0
<1>1. CASE split' = [split EXCEPT ![p].pc = "over"]
           /\ UNCHANGED <<exists, parent, budget>>
  BY <1>1, PlaceMoves
<1>2. ASSUME NEW c \in Child \ exists,
             exists' = exists \cup {c},
             budget' = [budget EXCEPT ![c] = FreshBudget(split[p].ceiling)],
             split' = [split EXCEPT ![p].pc = "created", ![p].child = c]
      PROVE  /\ \A q \in Proposal \ {p} : split'[q] = split[q]
             /\ split'[p].pc = "created" /\ split'[p].child = c
             /\ split'[p].on = split[p].on
             /\ split'[p].ceiling = split[p].ceiling
             /\ split'[p].after = split[p].after
             /\ \A s \in Session \ {c} : budget'[s] = budget[s]
             /\ budget'[c].tokenCeiling = split[p].ceiling
             /\ budget'[c].reserved = 0
  <2>1. /\ \A q \in Proposal \ {p} : split'[q] = split[q]
        /\ split'[p].pc = "created" /\ split'[p].child = c
        /\ split'[p].on = split[p].on
        /\ split'[p].ceiling = split[p].ceiling
        /\ split'[p].after = split[p].after
    BY <1>2 DEF Shapes, Splits
  <2>2. /\ \A s \in Session \ {c} : budget'[s] = budget[s]
        /\ budget'[c] = FreshBudget(split[p].ceiling)
    BY <1>2 DEF Shapes, Session
  <2>3. /\ budget'[c].tokenCeiling = split[p].ceiling
        /\ budget'[c].reserved = 0
    BY <2>2 DEF FreshBudget
  <2> QED
    BY <2>1, <2>2, <2>3
<1> QED
  BY <1>1, <1>2 DEF Create

\* A restart leaves every split new or over.
LEMMA RestartMoves ==
  ASSUME Shapes, Restart
  PROVE  /\ \A p \in Proposal :
              /\ split'[p].on = split[p].on
              /\ split'[p].child = split[p].child
              /\ split'[p].pc \in {"new", "over"}
              /\ split[p].pc # "new" => split'[p].pc = "over"
         /\ \A s \in Session :
              /\ budget'[s].tokenCeiling = budget[s].tokenCeiling
              /\ budget'[s].reserved = folded[s].reserved
<1>1. ASSUME NEW p \in Proposal
      PROVE  /\ split'[p].on = split[p].on
             /\ split'[p].child = split[p].child
             /\ split'[p].pc \in {"new", "over"}
             /\ split[p].pc # "new" => split'[p].pc = "over"
  <2>1. split[p] \in Splits
    BY DEF Shapes
  <2>2. split'[p] = IF split[p].pc = "new" THEN split[p]
                    ELSE [split[p] EXCEPT !.pc = "over"]
    BY DEF Restart
  <2> QED
    BY <2>1, <2>2 DEF Splits
<1>2. ASSUME NEW s \in Session
      PROVE  /\ budget'[s].tokenCeiling = budget[s].tokenCeiling
             /\ budget'[s].reserved = folded[s].reserved
  <2>1. budget[s] \in Copies
    BY DEF Shapes
  <2>2. budget'[s] = [budget[s] EXCEPT !.spent = folded[s].spent,
                                       !.reserved = folded[s].reserved]
    BY DEF Restart
  <2> QED
    BY <2>1, <2>2 DEF Copies
<1> QED
  BY <1>1, <1>2

\* What taking a child in leaves behind.
LEMMA AdoptWrites ==
  ASSUME Shapes, NEW p \in Proposal, Adopt(p)
  PROVE  LET s == split[p].on
         IN  /\ \A r \in Session \ {s} : /\ budget'[r] = budget[r]
                                         /\ children'[r] = children[r]
             /\ budget'[s] = split[p].after
             /\ children'[s] = children[s] \cup {split[p].child}
             /\ split[p].pc = "created" /\ s \in Session
             /\ UNCHANGED exists
<1>1. split[p].on \in Session
  BY DEF Shapes, Splits
<1> QED
  BY <1>1 DEF Adopt, Shapes

\* ... and writing it down.
LEMMA RecordWrites ==
  ASSUME Shapes, NEW p \in Proposal, Record(p)
  PROVE  LET s == split[p].on
             d == split[p].after.reserved - budget[s].reserved
         IN  /\ \A r \in Session \ {s} : folded'[r] = folded[r]
             /\ folded'[s].reserved = folded[s].reserved
                                        + (IF d > 0 THEN d ELSE 0)
<1>1. split[p].on \in Session
  BY DEF Shapes, Splits
<1> QED
  BY <1>1 DEF Record, ReservedNow, Shapes

\* A step that creates no session and records no child, and lets no split take
\* a copy.
LEMMA SplitKeepsFamilies ==
  ASSUME FamiliesGrow, Shapes, UNCHANGED <<exists, unlogged>>,
         \A s \in Session :
           /\ children'[s] \subseteq children[s]
           /\ budget'[s].tokenCeiling = budget[s].tokenCeiling,
         \A p \in Proposal :
           /\ split'[p].on \in exists
           /\ Carries(p)' =>
                /\ split[p].pc = split'[p].pc
                /\ split'[p].on = split[p].on
                /\ split'[p].ceiling = split[p].ceiling
                /\ split'[p].child = split[p].child
                /\ split'[p].after = split[p].after
  PROVE  FamiliesGrow'
<1>1. \A p \in Proposal : split[p].pc = "created" => split[p].child \in Session
  BY DEF Shapes, Session
<1>2. \A p \in Proposal : split[p].on \in Session
  BY DEF Shapes, Splits
<1> QED
  BY <1>1, <1>2 DEF FamiliesGrow, Carries

\* A session takes in a child of its own.
LEMMA AdoptKeepsFamilies ==
  ASSUME Shapes, FamiliesGrow, NEW p \in Proposal, Adopt(p), Moves(p),
         split'[p].pc \in {"recorded", "over"},
         \/ UNCHANGED unlogged
         \/ unlogged' = unlogged \cup {split[p].child}
  PROVE  FamiliesGrow'
<1>0. /\ \A q \in Proposal : split[q].on \in exists /\ split[q].on \in Session
      /\ \A q \in Proposal :
           split[q].pc = "created" => split[q].child \in Session
  BY DEF FamiliesGrow, Shapes, Splits, Session
<1>1. /\ split[p].pc = "created" /\ Carries(p) /\ UNCHANGED exists
      /\ split'[p].pc # "created" /\ ~Carries(p)'
      /\ \A q \in Proposal \ {p} : split'[q] = split[q]
      /\ split'[p].on = split[p].on
      /\ split[p].child \in exists
      /\ unlogged' \subseteq unlogged \cup {split[p].child}
  BY AdoptWrites DEF Moves, Carries, FamiliesGrow
<1>2. \A s \in Session : budget'[s].tokenCeiling = budget[s].tokenCeiling
  BY <1>0, <1>1, AdoptWrites DEF FamiliesGrow
<1>3. \A s \in Session :
        children'[s] \subseteq children[s] \cup {split[p].child}
  BY <1>0, AdoptWrites
<1>4. \A s \in Session \ exists : children'[s] = children[s]
  BY <1>0, AdoptWrites
<1>5. /\ Root \in exists' /\ unlogged' \subseteq exists'
      /\ \A s \in Session : children'[s] \subseteq exists'
      /\ \A s \in Session \ exists' : children'[s] = {}
  BY <1>1, <1>3, <1>4 DEF FamiliesGrow
<1>6. ASSUME NEW q \in Proposal
      PROVE  /\ split'[q].on \in exists'
             /\ Carries(q)' => split'[q].after.tokenCeiling
                                 = budget'[split'[q].on].tokenCeiling
  BY <1>0, <1>1, <1>2 DEF FamiliesGrow, Carries
<1>7. ASSUME NEW q \in Proposal, split'[q].pc = "created"
      PROVE  /\ split'[q].child \in exists' \ unlogged'
             /\ budget'[split'[q].child].tokenCeiling = split'[q].ceiling
             /\ \A s \in Session : split'[q].child \notin children'[s]
  <2>1. q # p /\ split'[q] = split[q] /\ split[q].pc = "created"
    BY <1>1, <1>7
  <2>2. split[q].child # split[p].child
    BY <1>1, <2>1 DEF FamiliesGrow
  <2>3. split[q].child \in exists \ unlogged /\ split[q].child \in Session
    BY <1>0, <2>1 DEF FamiliesGrow
  <2> QED
    BY <1>1, <1>2, <1>3, <2>1, <2>2, <2>3 DEF FamiliesGrow
<1>8. \A q, r \in Proposal :
        /\ split'[q].pc = "created" /\ split'[r].pc = "created"
        /\ split'[q].child = split'[r].child
        => q = r
  BY <1>1 DEF FamiliesGrow
<1> QED
  BY <1>5, <1>6, <1>7, <1>8 DEF FamiliesGrow

LEMMA InitFamilies == Init => FamiliesGrow
  BY BudgetAssumption DEF Init, FamiliesGrow, Carries, NoSplit, Session

LEMMA NextFamilies ==
  ASSUME Shapes, FamiliesGrow, [Next]_vars
  PROVE  FamiliesGrow'
<1> USE DEF treeVars, moneyVars, boundVars
<1>0. /\ \A p \in Proposal : split[p].on \in exists /\ split[p].on \in Session
      /\ \A p \in Proposal :
           split[p].pc = "created" => split[p].child \in Session
  BY DEF FamiliesGrow, Shapes, Splits, Session
<1>1. ASSUME NEW s \in Session, TurnStarts(s) PROVE FamiliesGrow'
  BY <1>0, <1>1, SplitKeepsFamilies DEF TurnStarts
<1>2. ASSUME NEW s \in Session, Usage(s) PROVE FamiliesGrow'
  BY <1>0, <1>2, SplitKeepsFamilies DEF Usage
<1>3. ASSUME NEW s \in Session, TurnEnds(s) PROVE FamiliesGrow'
  <2>1. \A r \in Session : budget'[r].tokenCeiling = budget[r].tokenCeiling
    BY <1>3 DEF TurnEnds, Shapes, Copies
  <2> QED
    BY <1>0, <1>3, <2>1, SplitKeepsFamilies DEF TurnEnds
<1>4. ASSUME NEW s \in Session, TurnThrows(s) PROVE FamiliesGrow'
  BY <1>0, <1>4, SplitKeepsFamilies DEF TurnThrows
<1>5. ASSUME NEW p \in Proposal, Propose(p) PROVE FamiliesGrow'
  <2>1. /\ \A q \in Proposal \ {p} : split'[q] = split[q]
        /\ split'[p].on \in exists /\ split'[p].pc = "proposed"
    BY <1>5 DEF Propose, Shapes, NoSplit
  <2> QED
    BY <1>0, <1>5, <2>1, SplitKeepsFamilies DEF Propose, Carries
<1>6. ASSUME NEW p \in Proposal, Proposed(p) PROVE FamiliesGrow'
  BY <1>0, <1>6, ProposedMoves, SplitKeepsFamilies
     DEF Proposed, Moves, Carries
<1>7. ASSUME NEW p \in Proposal, Decide(p) PROVE FamiliesGrow'
  BY <1>0, <1>7, DecideMoves, SplitKeepsFamilies DEF Decide, Moves, Carries
<1>8. ASSUME NEW p \in Proposal, Settled(p) PROVE FamiliesGrow'
  BY <1>0, <1>8, SettledMoves, SplitKeepsFamilies DEF Settled, Moves, Carries
<1>9. ASSUME NEW p \in Proposal, Prepare(p) PROVE FamiliesGrow'
  <2>1. UNCHANGED <<exists, children, unlogged, budget>>
    BY <1>9 DEF Prepare
  <2>2. CASE Moves(p) /\ split'[p].pc = "over"
    BY <1>0, <2>1, <2>2, SplitKeepsFamilies DEF Moves, Carries
  <2>3. CASE /\ \A q \in Proposal \ {p} : split'[q] = split[q]
             /\ split'[p].pc = "prepared" /\ split'[p].on = split[p].on
             /\ split'[p].after.tokenCeiling = budget[split[p].on].tokenCeiling
    BY <1>0, <2>1, <2>3 DEF FamiliesGrow, Carries
  <2> QED
    BY <1>9, <2>2, <2>3, PrepareMoves
<1>10. ASSUME NEW p \in Proposal, Create(p) PROVE FamiliesGrow'
  <2>1. split[p].pc = "prepared" /\ UNCHANGED <<children, unlogged>>
    BY <1>10 DEF Create
  <2>2. CASE /\ Moves(p) /\ split'[p].pc = "over"
             /\ UNCHANGED <<exists, budget>>
    BY <1>0, <2>1, <2>2, SplitKeepsFamilies DEF Moves, Carries
  <2>3. ASSUME NEW c \in Child \ exists,
               \A q \in Proposal \ {p} : split'[q] = split[q],
               split'[p].pc = "created", split'[p].child = c,
               split'[p].on = split[p].on,
               split'[p].ceiling = split[p].ceiling,
               split'[p].after = split[p].after,
               exists' = exists \cup {c},
               \A s \in Session \ {c} : budget'[s] = budget[s],
               budget'[c].tokenCeiling = split[p].ceiling
        PROVE  FamiliesGrow'
    <3>1. Carries(p)
      BY <2>1 DEF Carries
    <3>2. \A s \in Session : c \notin children[s]
      BY DEF FamiliesGrow
    <3>3. \A q \in Proposal : /\ split'[q].on = split[q].on
                              /\ split'[q].after = split[q].after
                              /\ Carries(q)' => Carries(q)
                              /\ split[q].on # c
      BY <1>0, <2>3, <3>1 DEF Carries
    <3>4. \A q \in Proposal :
            /\ split'[q].on \in exists'
            /\ Carries(q)' => split'[q].after.tokenCeiling
                                = budget'[split'[q].on].tokenCeiling
      BY <1>0, <2>3, <3>3 DEF FamiliesGrow
    <3>5. ASSUME NEW q \in Proposal, split'[q].pc = "created"
          PROVE  /\ split'[q].child \in exists' \ unlogged'
                 /\ budget'[split'[q].child].tokenCeiling = split'[q].ceiling
                 /\ \A s \in Session : split'[q].child \notin children'[s]
      <4>1. CASE q = p
        <5>1. c \notin unlogged
          BY DEF FamiliesGrow
        <5> QED
          BY <2>1, <2>3, <3>2, <4>1, <5>1
      <4>2. CASE q # p
        <5>1. split'[q] = split[q] /\ split[q].pc = "created"
          BY <2>3, <3>5, <4>2
        <5>2. split[q].child \in exists \ unlogged /\ split[q].child \in Session
          BY <1>0, <5>1 DEF FamiliesGrow
        <5> QED
          BY <2>1, <2>3, <5>1, <5>2 DEF FamiliesGrow
      <4> QED
        BY <4>1, <4>2
    <3>6. \A q \in Proposal \ {p} :
            split[q].pc = "created" => split[q].child # c
      BY DEF FamiliesGrow
    <3>7. \A q, r \in Proposal :
            /\ split'[q].pc = "created" /\ split'[r].pc = "created"
            /\ split'[q].child = split'[r].child
            => q = r
      BY <2>3, <3>6 DEF FamiliesGrow
    <3>8. /\ Root \in exists' /\ unlogged' \subseteq exists'
          /\ \A s \in Session : children'[s] \subseteq exists'
          /\ \A s \in Session \ exists' : children'[s] = {}
      BY <2>1, <2>3 DEF FamiliesGrow
    <3> QED
      BY <3>4, <3>5, <3>7, <3>8 DEF FamiliesGrow
  <2> QED
    BY <1>10, <2>2, <2>3, CreateMoves
<1>11. ASSUME NEW p \in Proposal, Record(p) PROVE FamiliesGrow'
  <2>1. Adopt(p) /\ Moves(p) /\ split'[p].pc = "recorded" /\ UNCHANGED unlogged
    BY <1>11, RecordMoves DEF Record
  <2> QED
    BY <2>1, AdoptKeepsFamilies
<1>15. ASSUME NEW p \in Proposal, RecordFails(p) PROVE FamiliesGrow'
  <2>1. /\ Adopt(p) /\ Moves(p) /\ split'[p].pc = "over"
        /\ unlogged' = unlogged \cup {split[p].child}
    BY <1>15, RecordFailsMoves DEF RecordFails
  <2> QED
    BY <2>1, AdoptKeepsFamilies
<1>12. ASSUME NEW p \in Proposal, SpawnReturns(p) PROVE FamiliesGrow'
  BY <1>0, <1>12, SpawnReturnsMoves, SplitKeepsFamilies
     DEF SpawnReturns, Moves, Carries
<1>13. ASSUME Restart PROVE FamiliesGrow'
  <2>1. /\ UNCHANGED <<exists, unlogged>>
        /\ \A s \in Session : children'[s] \subseteq children[s]
    BY <1>13 DEF Restart
  <2>2. \A p \in Proposal : ~Carries(p)' /\ split'[p].on \in exists
    BY <1>0, <1>13, RestartMoves DEF Carries
  <2> QED
    BY <1>13, <2>1, <2>2, RestartMoves, SplitKeepsFamilies
<1>14. CASE UNCHANGED vars
  BY <1>0, <1>14, SplitKeepsFamilies DEF vars
<1> QED
  BY <1>1, <1>2, <1>3, <1>4, <1>5, <1>6, <1>7, <1>8, <1>9, <1>10, <1>11,
     <1>12, <1>13, <1>14, <1>15 DEF Next

----------------------------------------------------------------------------
(* What is reserved                                                        *)

\* What Reservations says of a session.
Kept(s) ==
  /\ folded[s].reserved = SumOf(budget, children[s] \ unlogged)
  /\ budget[s].reserved = SumOf(budget, children[s])
  /\ budget[s].reserved <= budget[s].tokenCeiling

\* ... and of a split.
Reserves(p) ==
  /\ split[p].after.reserved = budget[split[p].on].reserved + split[p].ceiling
  /\ split[p].after.reserved <= split[p].after.tokenCeiling

LEMMA ReservationsSplit ==
  Reservations <=> /\ \A s \in Session : Kept(s)
                   /\ \A p \in Proposal : Carries(p) => Reserves(p)
  BY DEF Reservations, Kept, Reserves, CeilingsOf, SumOf, TokensOf

LEMMA ReservationsLater ==
  ASSUME \A s \in Session : Kept(s)',
         \A p \in Proposal : Carries(p)' => Reserves(p)'
  PROVE  Reservations'
  BY DEF Reservations, Kept, Reserves, CeilingsOf, SumOf, TokensOf

\* The session of a split exists.
LEMMA OnSession ==
  ASSUME Shapes
  PROVE  \A p \in Proposal : split[p].on \in Session
  BY DEF Shapes, Splits

\* A step that changes the money of nobody, and lets no split take a copy.
LEMMA SplitKeepsReservations ==
  ASSUME Shapes, Reservations, UNCHANGED <<children, unlogged>>,
         \A s \in Session :
           /\ budget'[s].tokenCeiling = budget[s].tokenCeiling
           /\ budget'[s].reserved = budget[s].reserved
           /\ folded'[s].reserved = folded[s].reserved,
         \A p \in Proposal : Carries(p)' =>
           /\ Carries(p)
           /\ split'[p].on = split[p].on
           /\ split'[p].ceiling = split[p].ceiling
           /\ split'[p].after = split[p].after
  PROVE  Reservations'
<1>1. ASSUME NEW s \in Session PROVE Kept(s)'
  <2>1. children[s] \subseteq Session
    BY DEF Shapes, Session
  <2>2. /\ SumOf(budget', children[s]) = SumOf(budget, children[s])
        /\ SumOf(budget', children[s] \ unlogged)
             = SumOf(budget, children[s] \ unlogged)
    BY <2>1, SameCeilings
  <2> QED
    BY <2>2, ReservationsSplit DEF Kept
<1>2. ASSUME NEW p \in Proposal, Carries(p)' PROVE Reserves(p)'
  BY <1>2, OnSession, ReservationsSplit DEF Reserves
<1> QED
  BY <1>1, <1>2, ReservationsLater


LEMMA InitReservations == Init => Reservations
<1> SUFFICES ASSUME Init PROVE Reservations
  OBVIOUS
<1>1. ASSUME NEW s \in Session PROVE Kept(s)
  <2>1. /\ budget[s].reserved = 0 /\ folded[s].reserved = 0
        /\ children[s] = {} /\ budget[s].tokenCeiling >= 0
    BY BudgetAssumption DEF Init, FreshBudget
  <2>2. children[s] \ unlogged = {}
    BY <2>1
  <2> QED
    BY <2>1, <2>2, NoCeilings DEF Kept
<1>2. \A p \in Proposal : ~Carries(p)
  BY DEF Init, NoSplit, Carries
<1> QED
  BY <1>1, <1>2, ReservationsSplit

\* The log reserves no more than the budget in memory.
LEMMA LogReservesLess ==
  ASSUME Shapes, Reservations, NEW s \in Session
  PROVE  folded[s].reserved <= budget[s].reserved
<1>1. IsFiniteSet(children[s])
  BY BudgetAssumption, FS_Subset DEF Shapes
<1>2. SumOf(budget, children[s] \ unlogged) <= SumOf(budget, children[s])
  BY <1>1, FewerCeilings
<1> QED
  BY <1>2, ReservationsSplit DEF Kept

\* A session takes in a child of its own: what it reserves is what its children
\* have, and no other split has a copy of its budget.
LEMMA AdoptReserves ==
  ASSUME Shapes, FamiliesGrow, Reservations, OneSplitAtATime,
         NEW p \in Proposal, Adopt(p), Moves(p),
         split'[p].pc \in {"recorded", "over"}
  PROVE  LET s == split[p].on
         IN  /\ \A r \in Session :
                  budget'[r].tokenCeiling = budget[r].tokenCeiling
             /\ \A r \in Session :
                  /\ budget'[r].reserved = SumOf(budget', children'[r])
                  /\ budget'[r].reserved <= budget'[r].tokenCeiling
             /\ budget'[s].reserved = budget[s].reserved + split[p].ceiling
             /\ \A q \in Proposal : Carries(q)' => Reserves(q)'
<1> DEFINE s == split[p].on
           c == split[p].child
           n == split[p].ceiling
<1>0. /\ \A q \in Proposal : split[q].on \in Session
      /\ \A r \in Session : Kept(r)
      /\ \A q \in Proposal : Carries(q) => Reserves(q)
  BY OnSession, ReservationsSplit
<1>1. /\ split[p].pc = "created" /\ Carries(p) /\ s \in Session
      /\ ~Carries(p)'
      /\ \A q \in Proposal \ {p} : split'[q] = split[q]
  BY AdoptWrites DEF Moves, Carries
<1>2. /\ \A r \in Session \ {s} : /\ budget'[r] = budget[r]
                                  /\ children'[r] = children[r]
      /\ budget'[s] = split[p].after
      /\ children'[s] = children[s] \cup {c}
  BY AdoptWrites
<1>3. /\ budget[s].reserved \in Nat /\ n \in 0..Ceiling /\ n \in Nat
      /\ c \in Child
  BY <1>1, BudgetAssumption DEF Shapes, Copies, Splits
<1>4. /\ budget'[s].reserved = budget[s].reserved + n
      /\ budget'[s].reserved <= budget'[s].tokenCeiling
  BY <1>0, <1>1, <1>2 DEF Reserves
<1>5. \A r \in Session : budget'[r].tokenCeiling = budget[r].tokenCeiling
  BY <1>1, <1>2 DEF FamiliesGrow
<1>6. \A r \in Session :
        SumOf(budget', children[r]) = SumOf(budget, children[r])
  <2>1. \A r \in Session : children[r] \subseteq Session
    BY DEF Shapes, Session
  <2> QED
    BY <1>5, <2>1, SameCeilings
<1>7. SumOf(budget', children'[s]) = budget[s].reserved + n
  <2>1. c \notin children[s] /\ budget'[c].tokenCeiling = n
    BY <1>1, <1>3, <1>5 DEF FamiliesGrow, Session
  <2>2. IsFiniteSet(children[s])
    BY <1>1, BudgetAssumption, FS_Subset DEF Shapes
  <2>3. SumOf(budget', children[s] \cup {c}) = SumOf(budget', children[s]) + n
    BY <1>3, <2>1, <2>2, OneMoreCeiling
  <2> QED
    BY <1>0, <1>1, <1>2, <1>6, <2>3 DEF Kept
<1> HIDE DEF s, c, n
<1>8. ASSUME NEW r \in Session
      PROVE  /\ budget'[r].reserved = SumOf(budget', children'[r])
             /\ budget'[r].reserved <= budget'[r].tokenCeiling
  <2>1. CASE r = s
    BY <1>4, <1>7, <2>1
  <2>2. CASE r # s
    BY <1>0, <1>2, <1>6, <2>2 DEF Kept
  <2> QED
    BY <2>1, <2>2
<1>9. ASSUME NEW q \in Proposal, Carries(q)' PROVE Reserves(q)'
  <2>1. q # p /\ split'[q] = split[q] /\ Carries(q)
    BY <1>1, <1>9 DEF Carries
  <2>2. split[q].on # s
    BY <1>1, <2>1 DEF OneSplitAtATime, Carries, UnderWay, s
  <2> QED
    BY <1>0, <1>2, <2>1, <2>2 DEF Reserves
<1> QED
  BY <1>4, <1>5, <1>8, <1>9 DEF s, n

LEMMA NextReservations ==
  ASSUME Shapes, FamiliesGrow, Reservations, OneSplitAtATime, [Next]_vars
  PROVE  Reservations'
<1> USE DEF treeVars, moneyVars, boundVars
<1>0. /\ \A p \in Proposal : split[p].on \in Session
      /\ \A s \in Session : Kept(s)
      /\ \A p \in Proposal : Carries(p) => Reserves(p)
  BY OnSession, ReservationsSplit
<1>1. ASSUME NEW s \in Session, TurnStarts(s) PROVE Reservations'
  BY <1>1, SplitKeepsReservations DEF TurnStarts, Carries
<1>2. ASSUME NEW s \in Session, Usage(s) PROVE Reservations'
  <2>1. \A r \in Session : folded'[r].reserved = folded[r].reserved
    BY <1>2 DEF Usage, Shapes
  <2> QED
    BY <1>2, <2>1, SplitKeepsReservations DEF Usage, Carries
<1>3. ASSUME NEW s \in Session, TurnEnds(s) PROVE Reservations'
  <2>1. \A r \in Session : /\ budget'[r].tokenCeiling = budget[r].tokenCeiling
                           /\ budget'[r].reserved = budget[r].reserved
    BY <1>3 DEF TurnEnds, Shapes, Copies
  <2> QED
    BY <1>3, <2>1, SplitKeepsReservations DEF TurnEnds, Carries
<1>4. ASSUME NEW s \in Session, TurnThrows(s) PROVE Reservations'
  BY <1>4, SplitKeepsReservations DEF TurnThrows, Carries
<1>5. ASSUME NEW p \in Proposal, Propose(p) PROVE Reservations'
  <2>1. /\ \A q \in Proposal \ {p} : split'[q] = split[q]
        /\ split'[p].pc = "proposed"
    BY <1>5 DEF Propose, Shapes, NoSplit
  <2> QED
    BY <1>5, <2>1, SplitKeepsReservations DEF Propose, Carries
<1>6. ASSUME NEW p \in Proposal, Proposed(p) PROVE Reservations'
  BY <1>6, ProposedMoves, SplitKeepsReservations DEF Proposed, Moves, Carries
<1>7. ASSUME NEW p \in Proposal, Decide(p) PROVE Reservations'
  BY <1>7, DecideMoves, SplitKeepsReservations DEF Decide, Moves, Carries
<1>8. ASSUME NEW p \in Proposal, Settled(p) PROVE Reservations'
  BY <1>8, SettledMoves, SplitKeepsReservations DEF Settled, Moves, Carries
<1>9. ASSUME NEW p \in Proposal, Prepare(p) PROVE Reservations'
  <2>1. UNCHANGED <<children, unlogged, budget, folded>>
    BY <1>9 DEF Prepare
  <2>2. CASE Moves(p) /\ split'[p].pc = "over"
    BY <2>1, <2>2, SplitKeepsReservations DEF Moves, Carries
  <2>3. CASE /\ \A q \in Proposal \ {p} : split'[q] = split[q]
             /\ split'[p].on = split[p].on
             /\ split'[p].ceiling = split[p].ceiling
             /\ LET b == budget[split[p].on]
                    a == split'[p].after
                IN  /\ a.reserved = b.reserved + split[p].ceiling
                    /\ a.reserved <= a.tokenCeiling
    <3>1. \A s \in Session : Kept(s)'
      BY <1>0, <2>1 DEF Kept
    <3>2. \A q \in Proposal : Carries(q)' => Reserves(q)'
      BY <1>0, <2>1, <2>3 DEF Reserves, Carries
    <3> QED
      BY <3>1, <3>2, ReservationsLater
  <2> QED
    BY <1>9, <2>2, <2>3, PrepareMoves
<1>10. ASSUME NEW p \in Proposal, Create(p) PROVE Reservations'
  <2>1. /\ split[p].pc = "prepared" /\ Carries(p)
        /\ UNCHANGED <<children, unlogged, folded>>
    BY <1>10 DEF Create, Carries
  <2>2. CASE /\ Moves(p) /\ split'[p].pc = "over"
             /\ UNCHANGED <<exists, budget>>
    BY <2>1, <2>2, SplitKeepsReservations DEF Moves, Carries
  <2>3. ASSUME NEW c \in Child \ exists,
               \A q \in Proposal \ {p} : split'[q] = split[q],
               split'[p].on = split[p].on,
               split'[p].ceiling = split[p].ceiling,
               split'[p].after = split[p].after,
               \A s \in Session \ {c} : budget'[s] = budget[s],
               budget'[c].tokenCeiling = split[p].ceiling,
               budget'[c].reserved = 0
        PROVE  Reservations'
    <3>1. c \in Session /\ children[c] = {} /\ split[p].ceiling \in Nat
      BY BudgetAssumption DEF FamiliesGrow, Session, Shapes, Splits
    <3>2. ASSUME NEW s \in Session PROVE Kept(s)'
      <4>1. children[s] \subseteq Session \ {c}
        BY DEF FamiliesGrow, Shapes, Session
      <4>2. /\ SumOf(budget', children[s]) = SumOf(budget, children[s])
            /\ SumOf(budget', children[s] \ unlogged)
                 = SumOf(budget, children[s] \ unlogged)
        BY <2>3, <4>1, SameCeilings
      <4>3. CASE s # c
        BY <1>0, <2>1, <2>3, <4>2, <4>3 DEF Kept
      <4>4. CASE s = c
        <5>0. children[c] \ unlogged = {}
          BY <3>1
        <5>1. /\ SumOf(budget', children[c]) = 0 /\ folded[c].reserved = 0
              /\ SumOf(budget', children[c] \ unlogged) = 0
          BY <1>0, <3>1, <4>2, <4>4, <5>0, NoCeilings DEF Kept
        <5>2. /\ budget'[s].reserved = 0 /\ folded'[s].reserved = 0
              /\ SumOf(budget', children'[s]) = 0
              /\ SumOf(budget', children'[s] \ unlogged') = 0
          BY <2>1, <2>3, <4>4, <5>1
        <5>3. budget'[s].tokenCeiling \in Nat
          BY <2>3, <3>1, <4>4
        <5> QED
          BY <5>2, <5>3 DEF Kept
      <4> QED
        BY <4>3, <4>4
    <3>3. ASSUME NEW q \in Proposal, Carries(q)' PROVE Reserves(q)'
      <4>1. /\ Carries(q) /\ split'[q].on = split[q].on
            /\ split'[q].ceiling = split[q].ceiling
            /\ split'[q].after = split[q].after
        BY <2>1, <2>3, <3>3 DEF Carries
      <4>2. budget'[split[q].on] = budget[split[q].on]
        BY <1>0, <2>3 DEF FamiliesGrow
      <4> QED
        BY <1>0, <4>1, <4>2 DEF Reserves
    <3> QED
      BY <3>2, <3>3, ReservationsLater
  <2> QED
    BY <1>10, <2>2, <2>3, CreateMoves
<1>11. ASSUME NEW p \in Proposal, Record(p) PROVE Reservations'
  <2> DEFINE s == split[p].on
             c == split[p].child
             n == split[p].ceiling
  <2>1. Adopt(p) /\ Moves(p) /\ split'[p].pc = "recorded" /\ UNCHANGED unlogged
    BY <1>11, RecordMoves DEF Record
  <2>2. /\ \A r \in Session : budget'[r].tokenCeiling = budget[r].tokenCeiling
        /\ \A r \in Session :
             /\ budget'[r].reserved = SumOf(budget', children'[r])
             /\ budget'[r].reserved <= budget'[r].tokenCeiling
        /\ budget'[s].reserved = budget[s].reserved + n
        /\ \A q \in Proposal : Carries(q)' => Reserves(q)'
    BY <2>1, AdoptReserves
  <2>3. /\ \A r \in Session \ {s} : children'[r] = children[r]
        /\ children'[s] = children[s] \cup {c}
        /\ budget'[s] = split[p].after
        /\ split[p].pc = "created" /\ s \in Session
    BY <2>1, AdoptWrites
  <2>4. \A r \in Session : SumOf(budget', children[r] \ unlogged)
                              = SumOf(budget, children[r] \ unlogged)
    <3>1. \A r \in Session : children[r] \subseteq Session
      BY DEF Shapes, Session
    <3> QED
      BY <2>2, <3>1, SameCeilings
  <2>5. /\ budget[s].reserved \in Nat /\ folded[s].reserved \in Nat
        /\ n \in 0..Ceiling /\ n \in Nat /\ c \in Child /\ c \in Session
    BY <2>3, BudgetAssumption DEF Shapes, Copies, Splits, Session
  <2>6. folded'[s].reserved = folded[s].reserved + n
    <3>1. split[p].after.reserved - budget[s].reserved = n
      BY <2>2, <2>3, <2>5
    <3>2. folded'[s].reserved = folded[s].reserved + (IF n > 0 THEN n ELSE 0)
      BY <1>11, <3>1, RecordWrites
    <3> QED
      BY <2>5, <3>2
  <2>7. folded'[s].reserved = SumOf(budget', children'[s] \ unlogged')
    <3>1. /\ c \notin children[s] \ unlogged /\ c \notin unlogged
          /\ budget'[c].tokenCeiling = n
      BY <2>2, <2>3, <2>5 DEF FamiliesGrow
    <3>2. IsFiniteSet(children[s] \ unlogged)
      <4>1. children[s] \ unlogged \in SUBSET Child
        BY <2>3 DEF Shapes
      <4> QED
        BY <4>1, BudgetAssumption, FS_Subset
    <3> DEFINE S == children[s] \ unlogged
    <3> HIDE DEF S
    <3>3. SumOf(budget', S \cup {c}) = SumOf(budget', S) + n
      <4>1. c \notin S /\ IsFiniteSet(S) /\ budget'[c].tokenCeiling \in 0..Ceiling
        BY <2>5, <3>1, <3>2 DEF S
      <4>2. SumOf(budget', S \cup {c})
              = SumOf(budget', S) + budget'[c].tokenCeiling
        BY <4>1, OneMoreCeiling
      <4> QED
        BY <3>1, <4>2
    <3> USE DEF S
    <3>4. children'[s] \ unlogged' = (children[s] \ unlogged) \cup {c}
      BY <2>1, <2>3, <3>1
    <3> QED
      BY <1>0, <2>3, <2>4, <2>6, <3>3, <3>4 DEF Kept
  <2> HIDE DEF s, c, n
  <2>8. ASSUME NEW r \in Session PROVE Kept(r)'
    <3>1. CASE r = s
      BY <2>2, <2>7, <3>1 DEF Kept
    <3>2. CASE r # s
      <4>1. folded'[r] = folded[r] /\ children'[r] = children[r]
        BY <1>11, <2>3, <3>2, RecordWrites DEF s
      <4> QED
        BY <1>0, <2>1, <2>2, <2>4, <4>1 DEF Kept
    <3> QED
      BY <3>1, <3>2
  <2> QED
    BY <2>2, <2>8, ReservationsLater
<1>15. ASSUME NEW p \in Proposal, RecordFails(p) PROVE Reservations'
  <2> DEFINE s == split[p].on
             c == split[p].child
  <2>1. /\ Adopt(p) /\ Moves(p) /\ split'[p].pc = "over"
        /\ unlogged' = unlogged \cup {c} /\ UNCHANGED folded
    BY <1>15, RecordFailsMoves DEF RecordFails
  <2>2. /\ \A r \in Session : budget'[r].tokenCeiling = budget[r].tokenCeiling
        /\ \A r \in Session :
             /\ budget'[r].reserved = SumOf(budget', children'[r])
             /\ budget'[r].reserved <= budget'[r].tokenCeiling
        /\ \A q \in Proposal : Carries(q)' => Reserves(q)'
    BY <2>1, AdoptReserves
  <2>3. /\ \A r \in Session \ {s} : children'[r] = children[r]
        /\ children'[s] = children[s] \cup {c}
        /\ split[p].pc = "created"
    BY <2>1, AdoptWrites
  <2>4. ASSUME NEW r \in Session PROVE Kept(r)'
    <3>1. c \notin children[r]
      BY <2>3 DEF FamiliesGrow
    <3>2. children'[r] \ unlogged' = children[r] \ unlogged
      BY <2>1, <2>3, <3>1
    <3>3. children[r] \subseteq Session
      BY DEF Shapes, Session
    <3>4. SumOf(budget', children[r] \ unlogged)
            = SumOf(budget, children[r] \ unlogged)
      BY <2>2, <3>3, SameCeilings
    <3> QED
      BY <1>0, <2>1, <2>2, <3>2, <3>4 DEF Kept
  <2> QED
    BY <2>2, <2>4, ReservationsLater
<1>12. ASSUME NEW p \in Proposal, SpawnReturns(p) PROVE Reservations'
  BY <1>12, SpawnReturnsMoves, SplitKeepsReservations
     DEF SpawnReturns, Moves, Carries
<1>13. ASSUME Restart PROVE Reservations'
  <2>1. /\ UNCHANGED <<unlogged, folded>>
        /\ \A s \in Session : children'[s] = children[s] \ unlogged
    BY <1>13 DEF Restart
  <2>2. \A p \in Proposal : ~Carries(p)'
    BY <1>13, RestartMoves DEF Carries
  <2>3. ASSUME NEW s \in Session PROVE Kept(s)'
    <3>1. /\ budget'[s].tokenCeiling = budget[s].tokenCeiling
          /\ budget'[s].reserved = folded[s].reserved
      BY <1>13, RestartMoves
    <3>2. children[s] \subseteq Session
      BY DEF Shapes, Session
    <3>3. SumOf(budget', children[s] \ unlogged)
            = SumOf(budget, children[s] \ unlogged)
      BY <1>13, <3>2, RestartMoves, SameCeilings
    <3>4. children'[s] \ unlogged' = children[s] \ unlogged
      BY <2>1
    <3>5. folded[s].reserved <= budget[s].reserved
      BY LogReservesLess
    <3>6. budget'[s].reserved <= budget'[s].tokenCeiling
      <4>1. budget[s].reserved <= budget[s].tokenCeiling
        BY <1>0 DEF Kept
      <4>2. budget[s] \in Copies /\ folded[s] \in [spent : Nat, reserved : Nat]
        BY DEF Shapes
      <4>3. /\ budget[s].reserved \in Nat /\ budget[s].tokenCeiling \in Int
            /\ folded[s].reserved \in Nat
        BY <4>2, BudgetAssumption DEF Copies
      <4> QED
        BY <3>1, <3>5, <4>1, <4>3
    <3> QED
      BY <1>0, <2>1, <3>1, <3>3, <3>4, <3>6 DEF Kept
  <2> QED
    BY <2>2, <2>3, ReservationsLater
<1>14. CASE UNCHANGED vars
  BY <1>14, SplitKeepsReservations DEF vars, Carries
<1> QED
  BY <1>1, <1>2, <1>3, <1>4, <1>5, <1>6, <1>7, <1>8, <1>9, <1>10, <1>11,
     <1>12, <1>13, <1>14, <1>15 DEF Next

----------------------------------------------------------------------------
(* The grant                                                               *)

\* The number of children that the grant has brought into being is a number.
LEMMA SpawnedIsCounted ==
  ASSUME GrantLeft
  PROVE  Cardinality(Spawned) \in Nat /\ Grant \in Nat /\ remaining \in Nat
<1>1. IsFiniteSet(Spawned)
  BY DEF GrantLeft
<1>2. Cardinality(Spawned) \in Nat
  BY <1>1, FS_CardinalityType
<1> QED
  BY <1>2, BudgetAssumption DEF GrantLeft

\* A step that spawns nothing, charges nothing and approves nothing.
LEMMA SplitKeepsGrant ==
  ASSUME Shapes, GrantLeft, UNCHANGED <<remaining, auto, unlogged>>,
         \A p \in Proposal :
           /\ split'[p].child = split[p].child
           /\ split'[p].child # NoSession =>
                split'[p].pc \in {"created", "recorded", "over"},
         \A p \in auto :
           /\ split'[p].pc \in UnderWay \cup {"over"}
           /\ split'[p].pc \in UnderWay => /\ split[p].pc \in UnderWay
                                           /\ split'[p].on = split[p].on
           /\ Owing(p) => split'[p].pc \in {"created", "recorded"}
  PROVE  GrantLeft'
<1>1. auto \subseteq Proposal
  BY DEF Shapes
<1>2. Spawned' = Spawned
  BY <1>1 DEF Spawned
<1>3. \A p \in Proposal : Owing(p) => Owing(p)'
  BY DEF Owing
<1>4. /\ remaining' \in 0..Grant
      /\ IsFiniteSet(Spawned)'
      /\ Cardinality(Spawned)' + remaining' <= Grant + 1
      /\ (\A p \in Proposal : ~Owing(p)')
           => Cardinality(Spawned)' + remaining' <= Grant
  <2>1. IsFiniteSet(Spawned)' /\ Cardinality(Spawned)' = Cardinality(Spawned)
    BY <1>2 DEF GrantLeft
  <2>2. (\A p \in Proposal : ~Owing(p)') => \A p \in Proposal : ~Owing(p)
    BY <1>3
  <2> QED
    BY <2>1, <2>2 DEF GrantLeft
<1>5. \A p \in auto' :
        /\ split'[p].pc \in UnderWay \cup {"over"}
        /\ split'[p].pc \in UnderWay => split'[p].on = Root /\ remaining' > 0
  BY DEF GrantLeft
<1> QED
  BY <1>4, <1>5 DEF GrantLeft

LEMMA InitGrant == Init => GrantLeft
<1> SUFFICES ASSUME Init PROVE GrantLeft
  OBVIOUS
<1>1. Spawned = {} /\ auto = {} /\ Grant \in Nat /\ remaining = Grant
  BY BudgetAssumption DEF Init, Spawned
<1>2. IsFiniteSet(Spawned) /\ Cardinality(Spawned) = 0
  BY <1>1, FS_EmptySet
<1>3. \A p \in Proposal : split[p].child = NoSession
  BY DEF Init, NoSplit
<1> QED
  BY <1>1, <1>2, <1>3 DEF GrantLeft

LEMMA NextGrant ==
  ASSUME Shapes, FamiliesGrow, GrantLeft, OneSplitAtATime, [Next]_vars
  PROVE  GrantLeft'
<1> USE DEF treeVars, moneyVars, boundVars
<1> DEFINE k == Cardinality(Spawned)
<1>0. /\ k \in Nat /\ Grant \in Nat /\ remaining \in Nat
      /\ auto \subseteq Proposal
      /\ \A p \in Proposal : split[p].child # NoSession =>
           split[p].pc \in {"created", "recorded", "over"}
      /\ \A p \in auto :
           /\ split[p].pc \in UnderWay \cup {"over"}
           /\ split[p].pc \in UnderWay => split[p].on = Root /\ remaining > 0
      /\ IsFiniteSet(Spawned)
      /\ k + remaining <= Grant + 1
      /\ (\A p \in Proposal : ~Owing(p)) => k + remaining <= Grant
  BY SpawnedIsCounted DEF GrantLeft, Shapes
<1>1. ASSUME UNCHANGED <<remaining, auto, unlogged, split>> PROVE GrantLeft'
  BY <1>0, <1>1, SplitKeepsGrant DEF Owing
<1>2. ASSUME NEW s \in Session, \/ TurnStarts(s) \/ Usage(s)
                                \/ TurnEnds(s) \/ TurnThrows(s)
      PROVE  GrantLeft'
  BY <1>1, <1>2 DEF TurnStarts, Usage, TurnEnds, TurnThrows
<1>3. ASSUME NEW p \in Proposal, Propose(p) PROVE GrantLeft'
  <2>1. /\ \A q \in Proposal \ {p} : split'[q] = split[q]
        /\ split'[p].child = NoSession
        /\ split[p].pc = "new" /\ UNCHANGED <<remaining, auto, unlogged>>
    BY <1>3 DEF Propose, Shapes, NoSplit
  <2>2. p \notin auto /\ split[p].child = NoSession
    BY <1>0, <2>1 DEF UnderWay
  <2> QED
    BY <1>0, <2>1, <2>2, SplitKeepsGrant DEF Owing
<1>4. ASSUME NEW p \in Proposal, Proposed(p) PROVE GrantLeft'
  <2>1. /\ Moves(p) /\ split'[p].pc \in {"settling", "asking"}
        /\ split[p].pc = "proposed" /\ UNCHANGED <<remaining, unlogged>>
    BY <1>4, ProposedMoves DEF Proposed
  <2>2. p \notin auto /\ split[p].child = NoSession
    BY <1>0, <2>1 DEF UnderWay
  <2>3. CASE UNCHANGED auto
    BY <1>0, <2>1, <2>2, <2>3, SplitKeepsGrant DEF Moves, Owing
  <2>4. CASE MayAutoSplit(split[p].on) /\ auto' = auto \cup {p}
    <3>1. split[p].on = Root /\ remaining > 0
      BY <2>4 DEF MayAutoSplit
    <3>2. Spawned' = Spawned
      BY <1>0, <2>1, <2>2, <2>4 DEF Spawned, Moves
    <3>3. \A q \in Proposal : Owing(q) <=> Owing(q)'
      BY <1>0, <2>1, <2>2, <2>4 DEF Owing, Moves
    <3>4. IsFiniteSet(Spawned)' /\ Cardinality(Spawned)' = k
      BY <1>0, <3>2
    <3>5. \A q \in auto' :
            /\ split'[q].pc \in UnderWay \cup {"over"}
            /\ split'[q].pc \in UnderWay =>
                 split'[q].on = Root /\ remaining' > 0
      <4>1. split'[p].pc = "settling" /\ split'[p].on = Root
        BY <1>4, <2>1, <2>2, <2>4, <3>1 DEF Proposed, Shapes, Splits, Moves
      <4> QED
        BY <1>0, <2>1, <2>4, <3>1, <4>1 DEF Moves, UnderWay
    <3>6. \A q \in Proposal : split'[q].child # NoSession =>
            split'[q].pc \in {"created", "recorded", "over"}
      BY <1>0, <2>1, <2>2 DEF Moves
    <3> HIDE DEF k
    <3> QED
      BY <1>0, <2>1, <3>3, <3>4, <3>5, <3>6 DEF GrantLeft
  <2> QED
    BY <1>4, <2>3, <2>4 DEF Proposed
<1>5. ASSUME NEW p \in Proposal, Decide(p) PROVE GrantLeft'
  <2>1. /\ Moves(p) /\ split[p].pc = "asking"
        /\ UNCHANGED <<remaining, auto, unlogged>>
    BY <1>5, DecideMoves DEF Decide
  <2>2. p \notin auto /\ split[p].child = NoSession
    BY <1>0, <2>1 DEF UnderWay
  <2> QED
    BY <1>0, <2>1, <2>2, SplitKeepsGrant DEF Moves, Owing
<1>6. ASSUME NEW p \in Proposal, Settled(p) PROVE GrantLeft'
  <2>1. /\ Moves(p) /\ split[p].pc = "settling" /\ split'[p].pc = "settled"
        /\ UNCHANGED <<remaining, auto, unlogged>>
    BY <1>6, SettledMoves DEF Settled
  <2> QED
    BY <1>0, <2>1, SplitKeepsGrant DEF Moves, Owing, UnderWay
<1>7. ASSUME NEW p \in Proposal, Prepare(p) PROVE GrantLeft'
  <2>1. /\ \A q \in Proposal \ {p} : split'[q] = split[q]
        /\ split'[p].on = split[p].on /\ split'[p].child = split[p].child
        /\ split'[p].pc \in {"prepared", "over"} /\ split[p].pc = "settled"
        /\ UNCHANGED <<remaining, auto, unlogged>>
    BY <1>7, PrepareMoves DEF Prepare, Moves
  <2> QED
    BY <1>0, <2>1, SplitKeepsGrant DEF Owing, UnderWay
<1>8. ASSUME NEW p \in Proposal, Create(p) PROVE GrantLeft'
  <2>1. /\ split[p].pc = "prepared" /\ UNCHANGED <<remaining, auto, unlogged>>
        /\ split[p].child = NoSession
    BY <1>0, <1>8 DEF Create
  <2>2. CASE Moves(p) /\ split'[p].pc = "over"
    BY <1>0, <2>1, <2>2, SplitKeepsGrant DEF Moves, Owing, UnderWay
  <2>3. ASSUME NEW c \in Child \ exists,
               \A q \in Proposal \ {p} : split'[q] = split[q],
               split'[p].pc = "created", split'[p].child = c,
               split'[p].on = split[p].on
        PROVE  GrantLeft'
    <3>1. c # NoSession /\ c \notin unlogged
      BY BudgetAssumption DEF FamiliesGrow
    <3>2. \A q \in Proposal : split'[q].child # NoSession =>
            split'[q].pc \in {"created", "recorded", "over"}
      BY <1>0, <2>3
    <3>3. \A q \in auto' :
            /\ split'[q].pc \in UnderWay \cup {"over"}
            /\ split'[q].pc \in UnderWay =>
                 split'[q].on = Root /\ remaining' > 0
      BY <1>0, <2>1, <2>3 DEF UnderWay
    <3>4. CASE p \in auto
      <4>1. ASSUME NEW q \in Proposal PROVE ~Owing(q)
        BY <1>0, <2>1, <3>4 DEF OneSplitAtATime, Owing, UnderWay
      <4>2. Spawned' = Spawned \cup {p} /\ p \notin Spawned
        BY <1>0, <2>1, <2>3, <3>1, <3>4 DEF Spawned
      <4>3. IsFiniteSet(Spawned)' /\ Cardinality(Spawned)' = k + 1
        BY <1>0, <4>2, FS_AddElement
      <4>4. Owing(p)'
        BY <2>1, <2>3, <3>4 DEF Owing
      <4> HIDE DEF k
      <4> QED
        BY <1>0, <2>1, <3>2, <3>3, <4>1, <4>3, <4>4 DEF GrantLeft
    <3>5. CASE p \notin auto
      <4>1. Spawned' = Spawned
        BY <1>0, <2>1, <2>3, <3>5 DEF Spawned
      <4>2. IsFiniteSet(Spawned)' /\ Cardinality(Spawned)' = k
        BY <1>0, <4>1
      <4>3. \A q \in Proposal : Owing(q) <=> Owing(q)'
        BY <1>0, <2>1, <2>3, <3>5 DEF Owing
      <4> HIDE DEF k
      <4> QED
        BY <1>0, <2>1, <3>2, <3>3, <4>2, <4>3 DEF GrantLeft
    <3> QED
      BY <3>4, <3>5
  <2> QED
    BY <1>8, <2>2, <2>3, CreateMoves
<1>9. ASSUME NEW p \in Proposal, Record(p) PROVE GrantLeft'
  <2>1. /\ Moves(p) /\ split[p].pc = "created" /\ split'[p].pc = "recorded"
        /\ UNCHANGED <<remaining, auto, unlogged>>
    BY <1>9, RecordMoves DEF Record, Adopt
  <2> QED
    BY <1>0, <2>1, SplitKeepsGrant DEF Moves, Owing, UnderWay
<1>10. ASSUME NEW p \in Proposal, SpawnReturns(p) PROVE GrantLeft'
  <2>1. /\ Moves(p) /\ split[p].pc = "recorded" /\ split'[p].pc = "over"
        /\ UNCHANGED <<auto, unlogged>>
    BY <1>10, SpawnReturnsMoves DEF SpawnReturns
  <2>2. CASE p \in auto
    <3>1. remaining' = remaining - 1 /\ remaining > 0
      BY <1>0, <1>10, <2>1, <2>2 DEF SpawnReturns, RemainingAfter, UnderWay
    <3>2. Spawned' = Spawned
      BY <1>0, <2>1 DEF Spawned, Moves
    <3>3. IsFiniteSet(Spawned)' /\ Cardinality(Spawned)' = k
      BY <1>0, <3>2
    <3>4. \A q \in auto' : split'[q].pc = "over"
      <4> TAKE q \in auto'
      <4>1. CASE q = p
        BY <2>1, <4>1
      <4>2. CASE q # p
        <5>1. split[q].pc \notin UnderWay
          BY <1>0, <2>1, <2>2, <4>2 DEF OneSplitAtATime, UnderWay
        <5> QED
          BY <1>0, <2>1, <4>2, <5>1 DEF Moves
      <4> QED
        BY <4>1, <4>2
    <3>5. \A q \in Proposal : split'[q].child # NoSession =>
            split'[q].pc \in {"created", "recorded", "over"}
      BY <1>0, <2>1 DEF Moves
    <3>6. remaining' \in 0..Grant
      BY <1>0, <3>1 DEF GrantLeft
    <3>7. \A q \in auto' :
            /\ split'[q].pc \in UnderWay \cup {"over"}
            /\ split'[q].pc \in UnderWay =>
                 split'[q].on = Root /\ remaining' > 0
      BY <3>4 DEF UnderWay
    <3> HIDE DEF k
    <3> QED
      BY <1>0, <3>1, <3>3, <3>5, <3>6, <3>7 DEF GrantLeft
  <2>3. CASE p \notin auto
    BY <1>0, <1>10, <2>1, <2>3, SplitKeepsGrant
       DEF SpawnReturns, RemainingAfter, Moves, Owing
  <2> QED
    BY <2>2, <2>3
<1>11. ASSUME Restart PROVE GrantLeft'
  <2>1. remaining' = 0 /\ UNCHANGED <<auto, unlogged>>
    BY <1>11 DEF Restart
  <2>2. \A p \in Proposal : /\ split'[p].child = split[p].child
                            /\ split[p].pc # "new" => split'[p].pc = "over"
    BY <1>11, RestartMoves
  <2>3. Spawned' = Spawned
    BY <1>0, <2>1, <2>2 DEF Spawned
  <2>4. IsFiniteSet(Spawned)' /\ Cardinality(Spawned)' = k
    BY <1>0, <2>3
  <2>5. k <= Grant
    <3>1. CASE \E p \in Proposal : Owing(p)
      <4>1. remaining > 0
        BY <1>0, <3>1 DEF Owing, UnderWay
      <4> HIDE DEF k
      <4> QED
        BY <1>0, <4>1
    <3>2. CASE \A p \in Proposal : ~Owing(p)
      <4>1. k + remaining <= Grant
        BY <1>0, <3>2
      <4> HIDE DEF k
      <4> QED
        BY <1>0, <4>1
    <3> QED
      BY <3>1, <3>2
  <2>6. \A p \in auto' : split'[p].pc = "over"
    BY <1>0, <2>1, <2>2 DEF UnderWay
  <2>7. \A p \in auto' :
          /\ split'[p].pc \in UnderWay \cup {"over"}
          /\ split'[p].pc \in UnderWay => split'[p].on = Root /\ remaining' > 0
    BY <2>6 DEF UnderWay
  <2>8. \A p \in Proposal : split'[p].child # NoSession =>
          split'[p].pc \in {"created", "recorded", "over"}
    BY <1>0, <2>2
  <2> HIDE DEF k
  <2> QED
    BY <1>0, <2>1, <2>4, <2>5, <2>7, <2>8 DEF GrantLeft
<1>13. ASSUME NEW p \in Proposal, RecordFails(p) PROVE GrantLeft'
  <2>1. /\ Moves(p) /\ split[p].pc = "created" /\ split'[p].pc = "over"
        /\ UNCHANGED <<remaining, auto>>
        /\ unlogged' = unlogged \cup {split[p].child}
    BY <1>13, RecordFailsMoves DEF RecordFails, Adopt
  <2>2. Spawned' \subseteq Spawned
    BY <1>0, <2>1 DEF Spawned, Moves
  <2>3. IsFiniteSet(Spawned)' /\ Cardinality(Spawned)' <= k
    BY <1>0, <2>2, FS_Subset
  <2>4. p \in auto => Cardinality(Spawned)' <= k - 1
    <3>1. ASSUME p \in auto PROVE Cardinality(Spawned)' <= k - 1
      <4>1. split[p].child # NoSession /\ split[p].child \notin unlogged
        BY <2>1, BudgetAssumption DEF FamiliesGrow, Shapes
      <4>2. p \in Spawned /\ p \notin Spawned'
        BY <2>1, <3>1, <4>1 DEF Spawned, Moves
      <4>3. IsFiniteSet(Spawned \ {p}) /\ Cardinality(Spawned \ {p}) = k - 1
        BY <1>0, <4>2, FS_RemoveElement
      <4>4. Spawned' \in SUBSET (Spawned \ {p})
        BY <2>2, <4>2
      <4>5. Cardinality(Spawned') <= Cardinality(Spawned \ {p})
        BY <4>3, <4>4, FS_Subset
      <4> QED
        BY <4>3, <4>5
    <3> QED
      BY <3>1
  <2>5. \A q \in Proposal : Owing(q) => Owing(q)' \/ (q = p /\ p \in auto)
    BY <1>0, <2>1 DEF Owing, Moves
  <2>6. Cardinality(Spawned)' \in Nat
    BY <2>3, FS_CardinalityType
  <2>7. \A q \in auto' :
          /\ split'[q].pc \in UnderWay \cup {"over"}
          /\ split'[q].pc \in UnderWay => split'[q].on = Root /\ remaining' > 0
    BY <1>0, <2>1 DEF Moves, UnderWay
  <2>8. \A q \in Proposal : split'[q].child # NoSession =>
          split'[q].pc \in {"created", "recorded", "over"}
    BY <1>0, <2>1 DEF Moves
  <2> DEFINE n == Cardinality(Spawned)'
  <2>9. n \in Nat /\ n <= k /\ (p \in auto => n <= k - 1)
    BY <2>3, <2>4, <2>6
  <2> HIDE DEF k, n
  <2>10. n + remaining <= Grant + 1
    BY <1>0, <2>9
  <2>11. ASSUME \A q \in Proposal : ~Owing(q)' PROVE n + remaining <= Grant
    <3>1. CASE p \in auto
      BY <1>0, <2>9, <3>1
    <3>2. CASE p \notin auto
      <4>1. \A q \in Proposal : ~Owing(q)
        BY <2>5, <2>11, <3>2
      <4> QED
        BY <1>0, <2>9, <4>1
    <3> QED
      BY <3>1, <3>2
  <2> USE DEF n
  <2>12. remaining' \in 0..Grant
    BY <2>1 DEF GrantLeft
  <2> QED
    BY <2>1, <2>3, <2>7, <2>8, <2>10, <2>11, <2>12 DEF GrantLeft
<1>12. CASE UNCHANGED vars
  BY <1>1, <1>12 DEF vars
<1> QED
  BY <1>2, <1>3, <1>4, <1>5, <1>6, <1>7, <1>8, <1>9, <1>10, <1>11, <1>12,
     <1>13 DEF Next

----------------------------------------------------------------------------
(* The theorems                                                            *)

\* What holds whatever overlaps, and what holds besides where no splits of one
\* session do.
Always == Shapes /\ UsageIsLogged /\ FamiliesGrow
InTurn == Always /\ Reservations /\ GrantLeft

LEMMA AlwaysHolds == Spec => []Always
<1>1. Init => Always
  BY InitShapes, InitUsage, InitFamilies DEF Always
<1>2. Always /\ [Next]_vars => Always'
  BY NextShapes, NextUsage, NextFamilies DEF Always
<1> QED
  BY <1>1, <1>2, PTL DEF Spec

LEMMA InTurnHolds == Spec /\ []OneSplitAtATime => []InTurn
<1>1. Init => InTurn
  BY InitShapes, InitUsage, InitFamilies, InitReservations, InitGrant
     DEF Always, InTurn
<1>2. InTurn /\ OneSplitAtATime /\ [Next]_vars => InTurn'
  BY NextShapes, NextUsage, NextFamilies, NextReservations, NextGrant
     DEF Always, InTurn
<1> QED
  BY <1>1, <1>2, PTL DEF Spec

LEMMA InTurnTyped ==
  ASSUME InTurn
  PROVE  TypeOK
<1> USE DEF InTurn, Always
<1>1. ASSUME NEW s \in Session
      PROVE  /\ budget[s] \in Budgets
             /\ folded[s] \in [spent : Nat, reserved : 0..Ceiling]
  <2>1. /\ budget[s] \in Copies /\ folded[s] \in [spent : Nat, reserved : Nat]
        /\ folded[s].reserved <= budget[s].reserved
        /\ budget[s].reserved <= budget[s].tokenCeiling
    BY LogReservesLess DEF Shapes, Reservations
  <2>2. budget[s].reserved \in 0..Ceiling /\ folded[s].reserved \in 0..Ceiling
    BY <2>1, BudgetAssumption DEF Copies
  <2> QED
    BY <2>1, <2>2 DEF Copies, Budgets
<1>2. /\ budget \in [Session -> Budgets]
      /\ folded \in [Session -> [spent : Nat, reserved : 0..Ceiling]]
  BY <1>1 DEF Shapes
<1>3. remaining \in 0..Grant
  BY DEF GrantLeft
<1> QED
  BY <1>2, <1>3 DEF Shapes, TypeOK, Splits, Places

\* The values of every variable stay in their sets: no session reserves more
\* than the root was given and the grant is never overdrawn, if no two approved
\* splits of one session are under way together.
THEOREM TypeCorrect == Spec /\ []OneSplitAtATime => []TypeOK
<1>1. InTurn => TypeOK
  BY InTurnTyped
<1> QED
  BY <1>1, InTurnHolds, PTL

\* Memory and log differ in what a session has reserved only by the children
\* whose event could not be written, and nobody pays twice, under the same
\* condition.
THEOREM BudgetsSurvive == Spec /\ []OneSplitAtATime => []BudgetSurvivesRestart
<1>1. ASSUME InTurn PROVE BudgetSurvivesRestart
  <2>1. exists \subseteq Session
    BY <1>1 DEF InTurn, Always, Shapes
  <2>2. \A s \in Session : budget[s].spent <= folded[s].spent
    BY <1>1, UsageNumbers DEF InTurn, Always, UsageIsLogged
  <2> QED
    BY <1>1, <2>1, <2>2 DEF InTurn, Reservations, BudgetSurvivesRestart
<1> QED
  BY <1>1, InTurnHolds, PTL

\* The children of a session can never spend more than the session was given,
\* under the same condition; without it, they can.
THEOREM TreeStaysInBudget == Spec /\ []OneSplitAtATime => []TreeCannotOutspend
<1>1. ASSUME InTurn PROVE TreeCannotOutspend
  <2>1. exists \subseteq Session
    BY <1>1 DEF InTurn, Always, Shapes
  <2> QED
    BY <1>1, <2>1 DEF InTurn, Reservations, TreeCannotOutspend
<1> QED
  BY <1>1, InTurnHolds, PTL

\* No more children come into being without anybody being asked than the grant
\* named, over every restart, but for those whose event could not be written,
\* under the same condition.
THEOREM GrantIsNotOverspent == Spec /\ []OneSplitAtATime => []GrantIsSpent
<1>1. ASSUME InTurn PROVE GrantIsSpent
  <2> DEFINE k == Cardinality(Spawned)
  <2>1. /\ k \in Nat /\ Grant \in Nat /\ remaining \in Nat
        /\ k + remaining <= Grant + 1
        /\ (\A p \in Proposal : ~Owing(p)) => k + remaining <= Grant
    BY <1>1, SpawnedIsCounted DEF InTurn, GrantLeft
  <2>2. (\E p \in Proposal : Owing(p)) => remaining > 0
    BY <1>1 DEF InTurn, GrantLeft, Owing, UnderWay
  <2>3. k <= Grant
    <3> HIDE DEF k
    <3> QED
      BY <2>1, <2>2
  <2> QED
    BY <2>3 DEF GrantIsSpent, Spawned
<1> QED
  BY <1>1, InTurnHolds, PTL

\* The condition of these theorems is met where at most one approved split of a
\* session is let under way at a time, as in the run of this module.
THEOREM BoundKeepsSplitsApart ==
  ASSUME MaxInFlight <= 1
  PROVE  Spec => []OneSplitAtATime
<1>0. MaxInFlight \in Nat
  BY BudgetAssumption
<1>1. Init => OneSplitAtATime
  BY DEF Init, OneSplitAtATime, UnderWay, NoSplit
<1>2. ASSUME OneSplitAtATime, NEW s, Cardinality(InFlight(s)) < MaxInFlight
      PROVE  InFlight(s) = {}
  <2>1. ASSUME NEW p \in InFlight(s) PROVE FALSE
    <3>1. InFlight(s) = {p}
      BY <1>2, <2>1 DEF OneSplitAtATime, InFlight, UnderWay
    <3>2. Cardinality(InFlight(s)) = 1
      BY <3>1, FS_Singleton
    <3> QED
      BY <1>0, <1>2, <3>2
  <2> QED
    BY <2>1
<1>3. ASSUME Shapes, OneSplitAtATime, [Next]_vars PROVE OneSplitAtATime'
  <2>1. ASSUME \A q \in Proposal : split'[q].pc \in UnderWay =>
                 split[q].pc \in UnderWay /\ split'[q].on = split[q].on
        PROVE  OneSplitAtATime'
    BY <1>3, <2>1 DEF OneSplitAtATime
  <2>2. ASSUME NEW p \in Proposal, InFlight(split[p].on) = {}, Moves(p)
        PROVE  OneSplitAtATime'
    <3>1. \A q \in Proposal \ {p} : split[q].pc \in UnderWay =>
            split[q].on # split[p].on
      BY <2>2 DEF InFlight, UnderWay
    <3> QED
      BY <1>3, <2>2, <3>1 DEF OneSplitAtATime, Moves
  <2>3. ASSUME UNCHANGED split PROVE OneSplitAtATime'
    BY <2>1, <2>3
  <2>4. ASSUME NEW s \in Session, \/ TurnStarts(s) \/ Usage(s)
                                  \/ TurnEnds(s) \/ TurnThrows(s)
        PROVE  OneSplitAtATime'
    BY <2>3, <2>4 DEF TurnStarts, Usage, TurnEnds, TurnThrows
  <2>5. ASSUME NEW p \in Proposal, Propose(p) PROVE OneSplitAtATime'
    <3>1. /\ \A q \in Proposal \ {p} : split'[q] = split[q]
          /\ split'[p].pc = "proposed"
      BY <1>3, <2>5 DEF Propose, Shapes, NoSplit
    <3> QED
      BY <2>1, <3>1 DEF UnderWay
  <2>6. ASSUME NEW p \in Proposal, Proposed(p) PROVE OneSplitAtATime'
    <3>1. Moves(p) /\ split'[p].pc \in {"settling", "asking"}
      BY <1>3, <2>6, ProposedMoves
    <3>2. CASE split'[p].pc = "asking"
      BY <2>1, <3>1, <3>2 DEF Moves, UnderWay
    <3>3. CASE split'[p].pc = "settling"
      <4>1. Cardinality(InFlight(split[p].on)) < MaxInFlight
        BY <1>3, <2>6, <3>3 DEF Proposed, Shapes, Splits
      <4> QED
        BY <1>2, <1>3, <2>2, <3>1, <4>1
    <3> QED
      BY <3>1, <3>2, <3>3
  <2>7. ASSUME NEW p \in Proposal, Decide(p) PROVE OneSplitAtATime'
    <3>1. Moves(p) /\ split'[p].pc \in {"settling", "over"}
      BY <1>3, <2>7, DecideMoves
    <3>2. CASE split'[p].pc = "over"
      BY <2>1, <3>1, <3>2 DEF Moves, UnderWay
    <3>3. CASE split'[p].pc = "settling"
      <4>1. Cardinality(InFlight(split[p].on)) < MaxInFlight
        BY <1>3, <2>7, <3>3 DEF Decide, Shapes, Splits
      <4> QED
        BY <1>2, <1>3, <2>2, <3>1, <4>1
    <3> QED
      BY <3>1, <3>2, <3>3
  <2>8. ASSUME NEW p \in Proposal, Settled(p) PROVE OneSplitAtATime'
    BY <1>3, <2>1, <2>8, SettledMoves DEF Settled, Moves, UnderWay
  <2>9. ASSUME NEW p \in Proposal, Prepare(p) PROVE OneSplitAtATime'
    BY <1>3, <2>1, <2>9, PrepareMoves DEF Prepare, Moves, UnderWay
  <2>10. ASSUME NEW p \in Proposal, Create(p) PROVE OneSplitAtATime'
    BY <1>3, <2>1, <2>10, CreateMoves DEF Create, Moves, UnderWay
  <2>11. ASSUME NEW p \in Proposal, Record(p) PROVE OneSplitAtATime'
    BY <1>3, <2>1, <2>11, RecordMoves DEF Record, Adopt, Moves, UnderWay
  <2>15. ASSUME NEW p \in Proposal, RecordFails(p) PROVE OneSplitAtATime'
    BY <1>3, <2>1, <2>15, RecordFailsMoves DEF RecordFails, Adopt, Moves, UnderWay
  <2>12. ASSUME NEW p \in Proposal, SpawnReturns(p) PROVE OneSplitAtATime'
    BY <1>3, <2>1, <2>12, SpawnReturnsMoves DEF SpawnReturns, Moves, UnderWay
  <2>13. ASSUME Restart PROVE OneSplitAtATime'
    <3>1. \A p \in Proposal : split'[p].pc \notin UnderWay
      BY <1>3, <2>13, RestartMoves DEF UnderWay
    <3> QED
      BY <2>1, <3>1
  <2>14. CASE UNCHANGED vars
    BY <2>3, <2>14 DEF vars
  <2> QED
    BY <1>3, <2>4, <2>5, <2>6, <2>7, <2>8, <2>9, <2>10, <2>11, <2>12, <2>13,
       <2>14, <2>15 DEF Next
<1>4. Always => Shapes
  BY DEF Always
<1> QED
  BY <1>1, <1>3, <1>4, AlwaysHolds, PTL DEF Spec
=============================================================================
