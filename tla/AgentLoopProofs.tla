--------------------------- MODULE AgentLoopProofs ---------------------------
(***************************************************************************)
(* For any number of agents, files, calls and rounds: leases change hands  *)
(* only by the end of a turn, and a write whose lease is in force replaces *)
(* what its agent saw.                                                     *)
(***************************************************************************)
EXTENDS AgentLoop, TLAPS

\* A loop that is in a call has one, which its answer counts.
InCall ==
  \A a \in Agent : pc[a] \notin {"idle", "head"} => /\ left[a] \in 1..MaxCalls
                                                    /\ call[a] \in Call

TypeInv == TypeOK /\ InCall

LEMMA InitTypes == Init => TypeInv
<1> USE LoopAssumption
<1>1. ASSUME Init PROVE TypeOK
  BY <1>1 DEF Init, TypeOK
<1>2. ASSUME Init PROVE InCall
  BY <1>2 DEF Init, InCall
<1> QED
  BY <1>1, <1>2 DEF TypeInv

\* What the end of a call and the release of leases do to the types.
LEMMA FinishTypes ==
  ASSUME TypeInv, NEW a \in Agent, left[a] > 0, FinishTool(a)
  PROVE  /\ left' \in [Agent -> 0..MaxCalls]
         /\ call' \in [Agent -> Call \cup {NoCall}]
         /\ pc' \in [Agent -> {"idle", "head", "asking", "reading"} \cup EditPcs]
         /\ InCall'
<1> USE LoopAssumption DEF FinishTool, TypeInv, TypeOK
<1>1. left[a] - 1 \in 0..MaxCalls
  OBVIOUS
<1>2. left' \in [Agent -> 0..MaxCalls]
  BY <1>1
<1>3. InCall'
  BY DEF InCall
<1> QED
  BY <1>2, <1>3

LEMMA ReleaseTypes ==
  ASSUME TypeInv, NEW a \in Agent, ReleaseHeld(a)
  PROVE  /\ holder' \in [File -> Agent \cup {NoAgent}]
         /\ expired' \subseteq File
BY DEF TypeInv, TypeOK, ReleaseHeld

LEMMA EndTypes ==
  ASSUME TypeInv, NEW a \in Agent, EndTurn(a)
  PROVE  TypeInv'
<1>1. /\ holder' \in [File -> Agent \cup {NoAgent}]
      /\ expired' \subseteq File
  BY ReleaseTypes DEF EndTurn
<1>2. TypeOK'
  BY <1>1, LoopAssumption DEF EndTurn, TypeInv, TypeOK, fileVars
<1>3. InCall'
  BY DEF EndTurn, TypeInv, TypeOK, InCall
<1> QED
  BY <1>2, <1>3 DEF TypeInv

LEMMA StepTypes == TypeInv /\ [Next]_vars => TypeInv'
<1> SUFFICES ASSUME TypeInv, [Next]_vars PROVE TypeInv'
  OBVIOUS
<1> USE LoopAssumption
<1>1. ASSUME NEW a \in Agent, Start(a) PROVE TypeInv'
  BY <1>1 DEF Start, TypeInv, TypeOK, InCall, leaseVars, fileVars
<1>2. ASSUME NEW a \in Agent, Round(a) PROVE TypeInv'
  <2>1. CASE EndTurn(a)
    BY <2>1, EndTypes
  <2>2. CASE ~EndTurn(a)
    <3>1. PICK n \in 1..MaxCalls : left' = [left EXCEPT ![a] = n]
      BY <1>2, <2>2 DEF Round
    <3>2. rounds[a] < MaxIterations
      BY <1>2, <2>2 DEF Round, MayAsk
    <3>3. rounds' = [rounds EXCEPT ![a] = @ + 1]
      BY <1>2, <2>2 DEF Round
    <3>4. rounds' \in [Agent -> 0..MaxIterations]
      BY <3>2, <3>3 DEF TypeInv, TypeOK
    <3>5. left' \in [Agent -> 0..MaxCalls]
      BY <3>1 DEF TypeInv, TypeOK
    <3>6. UNCHANGED <<leaseVars, fileVars, pc, call, text, handle, aborted,
                      turns, upsets>>
      BY <1>2, <2>2 DEF Round
    <3>7. InCall'
      BY <1>2, <3>1, <3>6 DEF Round, TypeInv, TypeOK, InCall
    <3> QED
      BY <3>4, <3>5, <3>6, <3>7 DEF TypeInv, TypeOK, leaseVars, fileVars
  <2> QED
    BY <2>1, <2>2
<1>3. ASSUME NEW a \in Agent, NextCall(a) PROVE TypeInv'
  <2>1. CASE EndTurn(a)
    BY <2>1, EndTypes
  <2>2. CASE handle[a] = "open" /\ ~EndTurn(a)
    <3>1. /\ left[a] > 0
          /\ pc' = [pc EXCEPT ![a] = "asking"]
          /\ UNCHANGED <<leaseVars, fileVars, turnVars, text, left, upsets>>
      BY <1>3, <2>2 DEF NextCall
    <3>2. PICK c \in Call : ~c.compared /\ call' = [call EXCEPT ![a] = c]
      BY <1>3, <2>2 DEF NextCall
    <3>3. TypeOK'
      BY <3>1, <3>2 DEF TypeInv, TypeOK, leaseVars, fileVars, turnVars
    <3>4. InCall'
      BY <3>1, <3>2 DEF TypeInv, TypeOK, InCall
    <3> QED
      BY <3>3, <3>4 DEF TypeInv
  <2>3. CASE handle[a] = "closed" /\ ~EndTurn(a)
    <3>1. FinishTool(a) /\ left[a] > 0
      BY <1>3, <2>3 DEF NextCall
    <3> QED
      BY <1>3, <2>3, <3>1, FinishTypes
      DEF NextCall, TypeInv, TypeOK, leaseVars, fileVars, turnVars
  <2> QED
    BY <1>3, <2>1, <2>2, <2>3 DEF NextCall
<1>4. ASSUME NEW a \in Agent, Deny(a) PROVE TypeInv'
  BY <1>4, FinishTypes
  DEF Deny, TypeInv, TypeOK, InCall, leaseVars, fileVars, turnVars
<1>5. ASSUME NEW a \in Agent, AllowRead(a) PROVE TypeInv'
  BY <1>5 DEF AllowRead, TypeInv, TypeOK, InCall, leaseVars, fileVars, turnVars
<1>6. ASSUME NEW a \in Agent, AllowWrite(a) PROVE TypeInv'
  <2>1. left[a] > 0 /\ call[a] \in Call /\ Target(a) \in File
    BY <1>6 DEF AllowWrite, TypeInv, InCall, Call, Target
  <2>2. CASE MayAcquire(Target(a), a)
    <3>1. /\ holder' = [holder EXCEPT ![Target(a)] = a]
          /\ expired' = expired \ {Target(a)}
          /\ pc' = [pc EXCEPT ![a] = "checking"]
          /\ UNCHANGED <<fileVars, turnVars, text, upsets, left, call>>
      BY <1>6, <2>2 DEF AllowWrite, Acquire
    <3>2. TypeOK'
      BY <2>1, <3>1 DEF TypeInv, TypeOK, EditPcs, fileVars, turnVars
    <3>3. InCall'
      BY <1>6, <3>1 DEF AllowWrite, TypeInv, TypeOK, InCall
    <3> QED
      BY <3>2, <3>3 DEF TypeInv
  <2>3. CASE ~MayAcquire(Target(a), a)
    BY <1>6, <2>1, <2>3, FinishTypes
    DEF AllowWrite, TypeInv, TypeOK, leaseVars, fileVars, turnVars
  <2> QED
    BY <2>2, <2>3
<1>7. ASSUME NEW a \in Agent, Read(a) PROVE TypeInv'
  <2>1. left[a] > 0 /\ Target(a) \in File
    BY <1>7 DEF Read, TypeInv, InCall, Call, Target
  <2>2. seen' \in [Agent -> [File -> {"unread", "current", "old"}]]
    <3>1. ASSUME NEW what \in {text[a], "current"},
                 seen' = [seen EXCEPT ![a][Target(a)] = what]
          PROVE  seen' \in [Agent -> [File -> {"unread", "current", "old"}]]
      <4>1. what \in {"unread", "current", "old"}
        BY DEF TypeInv, TypeOK
      <4> QED
        BY <2>1, <3>1, <4>1 DEF TypeInv, TypeOK
    <3>2. CASE UNCHANGED seen
      BY <3>2 DEF TypeInv, TypeOK
    <3> QED
      BY <1>7, <3>1, <3>2 DEF Read
  <2> QED
    BY <1>7, <2>1, <2>2, FinishTypes
    DEF Read, TypeInv, TypeOK, leaseVars, turnVars
<1>8. ASSUME NEW a \in Agent, Check(a) PROVE TypeInv'
  <2>1. left[a] > 0 /\ call[a] \in Call
    BY <1>8 DEF Check, TypeInv, InCall
  <2>2. CASE FinishTool(a)
    BY <1>8, <2>1, <2>2, FinishTypes
    DEF Check, TypeInv, TypeOK, leaseVars, fileVars, turnVars
  <2>3. CASE ~FinishTool(a)
    <3>1. PICK compared \in BOOLEAN :
            call' = [call EXCEPT ![a].compared = compared]
      BY <1>8, <2>3 DEF Check
    <3>2. /\ pc[a] = "checking"
          /\ pc' = [pc EXCEPT ![a] = IF call[a].tool = "edit" THEN "fetching"
                                                              ELSE "writing"]
          /\ UNCHANGED <<left, leaseVars, fileVars, turnVars, text, upsets>>
      BY <1>8, <2>3 DEF Check
    <3>3. [call[a] EXCEPT !.compared = compared] \in Call
      BY <2>1 DEF Call
    <3>4. call' \in [Agent -> Call \cup {NoCall}] /\ call'[a] \in Call
      BY <3>1, <3>3 DEF TypeInv, TypeOK
    <3>5. TypeOK'
      BY <3>2, <3>4
      DEF TypeInv, TypeOK, EditPcs, leaseVars, fileVars, turnVars
    <3>6. InCall'
      BY <3>1, <3>2, <3>4 DEF TypeInv, TypeOK, InCall
    <3> QED
      BY <3>5, <3>6 DEF TypeInv
  <2> QED
    BY <2>2, <2>3
<1>9. ASSUME NEW a \in Agent, Fetch(a) PROVE TypeInv'
  <2>1. left[a] > 0
    BY <1>9 DEF Fetch, TypeInv, InCall
  <2>2. CASE FinishTool(a) /\ UNCHANGED text
    BY <1>9, <2>1, <2>2, FinishTypes
    DEF Fetch, TypeInv, TypeOK, leaseVars, fileVars, turnVars
  <2>3. CASE ~(FinishTool(a) /\ UNCHANGED text)
    <3>1. /\ text' = [text EXCEPT ![a] = "current"]
          /\ pc' = [pc EXCEPT ![a] = "writing"]
          /\ UNCHANGED <<left, call, leaseVars, fileVars, turnVars, upsets>>
      BY <1>9, <2>3 DEF Fetch
    <3>2. TypeOK'
      BY <3>1 DEF TypeInv, TypeOK, EditPcs, leaseVars, fileVars, turnVars
    <3>3. InCall'
      BY <1>9, <3>1 DEF Fetch, TypeInv, TypeOK, InCall
    <3> QED
      BY <3>2, <3>3 DEF TypeInv
  <2> QED
    BY <2>2, <2>3
<1>10. ASSUME NEW a \in Agent, Land(a) PROVE TypeInv'
  <2>1. left[a] > 0 /\ Target(a) \in File
    BY <1>10 DEF Land, TypeInv, InCall, Call, Target
  <2>2. seen' \in [Agent -> [File -> {"unread", "current", "old"}]]
    <3>1. SeenAfter(a, Target(a))
            \in [Agent -> [File -> {"unread", "current", "old"}]]
      BY <2>1 DEF SeenAfter, Outdated, TypeInv, TypeOK
    <3> QED
      BY <1>10, <3>1 DEF Land, TypeInv, TypeOK, fileVars
  <2>3. text' \in [Agent -> {"unread", "current", "old"}]
    BY <1>10, <2>1 DEF Land, TextAfter, Outdated, TypeInv, TypeOK
  <2>4. stray' \subseteq File
    BY <1>10, <2>1 DEF Land, TypeInv, TypeOK, fileVars
  <2> QED
    BY <1>10, <2>1, <2>2, <2>3, <2>4, FinishTypes
    DEF Land, TypeInv, TypeOK, leaseVars, turnVars
<1>11. ASSUME NEW a \in Agent, Abort(a) PROVE TypeInv'
  BY <1>11 DEF Abort, TypeInv, TypeOK, InCall, leaseVars, fileVars
<1>12. ASSUME NEW a \in Agent, Interrupt(a) PROVE TypeInv'
  <2>1. /\ holder' \in [File -> Agent \cup {NoAgent}]
        /\ expired' \subseteq File
    BY <1>12, ReleaseTypes DEF Interrupt
  <2>2. CASE pc[a] = "asking"
    <3>1. left[a] > 0 /\ FinishTool(a)
      BY <1>12, <2>2 DEF Interrupt, FailAsks, TypeInv, InCall
    <3> QED
      BY <1>12, <2>1, <3>1, FinishTypes
      DEF Interrupt, TypeInv, TypeOK, fileVars
  <2>3. CASE pc[a] # "asking"
    BY <1>12, <2>1, <2>3
    DEF Interrupt, FailAsks, TypeInv, TypeOK, InCall, fileVars
  <2> QED
    BY <2>2, <2>3
<1>13. ASSUME NEW f \in File, Expire(f) PROVE TypeInv'
  BY <1>13 DEF Expire, TypeInv, TypeOK, InCall, fileVars, turnVars
<1>14. ASSUME HostExit PROVE TypeInv'
  BY <1>14 DEF HostExit, TypeInv, TypeOK, InCall
<1>15. CASE UNCHANGED vars
  BY <1>15 DEF vars, TypeInv, TypeOK, InCall, leaseVars, fileVars, turnVars
<1> QED
  BY <1>1, <1>2, <1>3, <1>4, <1>5, <1>6, <1>7, <1>8, <1>9, <1>10, <1>11,
     <1>12, <1>13, <1>14, <1>15 DEF Next, LoopStep, Decide

\* Every variable keeps its type; no turn counts fewer calls than it is in.
THEOREM Typed == Spec => []TypeOK
<1>1. TypeInv => TypeOK
  BY DEF TypeInv
<1> QED
  BY <1>1, InitTypes, StepTypes, PTL DEF Spec, SafeSpec

----------------------------------------------------------------------------
(* Leases.  Only four actions touch holder; each of them is looked at.     *)

\* Giving back what one agent holds concerns nobody else.
LEMMA ReleaseKeeps ==
  ASSUME TypeInv, NEW b \in Agent, ReleaseHeld(b), handle'[b] = "closed",
         NEW a \in Agent, NEW f \in File
  PROVE  KeepsLease(a, f)
BY DEF ReleaseHeld, KeepsLease, Holds, TypeInv, TypeOK

LEMMA EndKeeps ==
  ASSUME TypeInv, NEW b \in Agent, EndTurn(b), NEW a \in Agent, NEW f \in File
  PROVE  KeepsLease(a, f)
<1>1. handle'[b] = "closed" /\ ReleaseHeld(b)
  BY DEF EndTurn, TypeInv, TypeOK
<1> QED
  BY <1>1, ReleaseKeeps

LEMMA StepKeeps ==
  TypeInv /\ [Next]_vars => \A a \in Agent, f \in File : KeepsLease(a, f)
<1> SUFFICES ASSUME TypeInv, [Next]_vars, NEW a \in Agent, NEW f \in File
             PROVE  KeepsLease(a, f)
  OBVIOUS
<1>1. CASE UNCHANGED holder
  BY <1>1 DEF KeepsLease, Holds
<1>2. ASSUME NEW b \in Agent, EndTurn(b) PROVE KeepsLease(a, f)
  BY <1>2, EndKeeps
<1>3. ASSUME NEW b \in Agent, AllowWrite(b) PROVE KeepsLease(a, f)
  <2>1. CASE MayAcquire(Target(b), b)
    <3>1. holder' = [holder EXCEPT ![Target(b)] = b]
      BY <1>3, <2>1 DEF AllowWrite, Acquire
    <3>2. CASE f = Target(b)
      BY <2>1, <3>1, <3>2, LoopAssumption
      DEF MayAcquire, KeepsLease, Holds, TypeInv, TypeOK
    <3>3. CASE f # Target(b)
      BY <3>1, <3>3 DEF KeepsLease, Holds, TypeInv, TypeOK
    <3> QED
      BY <3>2, <3>3
  <2>2. CASE ~MayAcquire(Target(b), b)
    BY <1>1, <1>3, <2>2 DEF AllowWrite, leaseVars
  <2> QED
    BY <2>1, <2>2
<1>4. ASSUME NEW b \in Agent, Interrupt(b) PROVE KeepsLease(a, f)
  <2>1. handle'[b] = "closed" /\ ReleaseHeld(b)
    BY <1>4 DEF Interrupt, TypeInv, TypeOK
  <2> QED
    BY <2>1, ReleaseKeeps
<1>5. ASSUME HostExit PROVE KeepsLease(a, f)
  BY <1>5 DEF HostExit, KeepsLease
<1>6. ASSUME NEW b \in Agent, \/ Start(b) \/ Deny(b) \/ AllowRead(b) \/ Read(b)
                              \/ Check(b) \/ Fetch(b) \/ Land(b) \/ Abort(b)
      PROVE  UNCHANGED holder
  BY <1>6 DEF Start, Deny, AllowRead, Read, Check, Fetch, Land, Abort, leaseVars
<1>7. ASSUME NEW b \in Agent, Round(b) \/ NextCall(b)
      PROVE  EndTurn(b) \/ UNCHANGED holder
  BY <1>7 DEF Round, NextCall, leaseVars
<1>8. ASSUME NEW g \in File, Expire(g) PROVE UNCHANGED holder
  BY <1>8 DEF Expire
<1>9. CASE UNCHANGED vars
  BY <1>1, <1>9 DEF vars, leaseVars
<1> QED
  BY <1>1, <1>2, <1>3, <1>4, <1>5, <1>6, <1>7, <1>8, <1>9
  DEF Next, LoopStep, Decide

\* A lease in force is lost only with the turn, or the process, of its holder.
THEOREM LeasesAreKept == Spec => LeaseIsKept
<1>1. TypeInv /\ [Next]_vars
        => [\A a \in Agent, f \in File : KeepsLease(a, f)]_vars
  BY StepKeeps
<1> QED
  BY <1>1, InitTypes, StepTypes, PTL DEF Spec, SafeSpec, LeaseIsKept

----------------------------------------------------------------------------
(* Writes.  What a write may rely on is settled by Check, before the file  *)
(* is read again and written, so the invariant speaks of both steps.  Only *)
(* a write of somebody else can undo it, and that one either does not hold *)
(* the file, which makes it a stray one, or leaves no lease to its victim. *)

Informed(a) ==
  LET f == Target(a) IN
    pc[a] \in {"fetching", "writing"} /\ Holds(a, f) /\ f \notin stray =>
      /\ call[a].compared => seen[a][f] # "old"
      /\ pc[a] = "writing" /\ call[a].tool = "edit" => text[a] = "current"

\* The agent had the lease already, and what was expired still is.
KeptBy(a) == /\ holder[Target(a)] = a
             /\ Target(a) \in expired => Target(a) \in expired'

\* A step that leaves the call of an agent alone keeps it informed.
LEMMA StaysInformed ==
  ASSUME NEW a \in Agent, Informed(a),
         pc'[a] = pc[a], call'[a] = call[a], text'[a] = text[a],
         seen'[a][Target(a)] = seen[a][Target(a)],
         holder'[Target(a)] = a => KeptBy(a),
         Target(a) \in stray => Target(a) \in stray'
  PROVE  Informed(a)'
BY DEF Informed, Target, Holds, KeptBy

\* An agent that is about to do neither has nothing to be informed of.
LEMMA NothingToKnow ==
  ASSUME NEW a \in Agent, pc'[a] \notin {"fetching", "writing"}
  PROVE  Informed(a)'
BY DEF Informed

LEMMA StepInformed ==
  ASSUME TypeInv, [Next]_vars, NEW a \in Agent, Informed(a)
  PROVE  Informed(a)'
<1> USE DEF TypeInv, TypeOK
<1>0. pc[a] \in {"fetching", "writing"} => Target(a) \in File
  BY DEF InCall, Target, Call
<1>1. CASE pc[a] \in {"fetching", "writing"}
  <2>0. Target(a) \in File
    BY <1>0, <1>1
  <2>1. ASSUME NEW b \in Agent,
               Start(b) \/ Deny(b) \/ AllowRead(b) \/ Read(b) \/ Abort(b)
        PROVE  Informed(a)'
    <3>1. /\ pc[b] \notin {"fetching", "writing"} \/ Abort(b)
          /\ UNCHANGED <<leaseVars, stray>>
      BY <2>1 DEF Start, Deny, AllowRead, Read, Abort, leaseVars, fileVars
    <3>2. CASE Abort(b)
      BY <3>2, StaysInformed DEF KeptBy, Abort, leaseVars, fileVars
    <3>3. CASE a # b
      <4>1. pc'[a] = pc[a] /\ call'[a] = call[a] /\ text'[a] = text[a]
        BY <2>1, <3>3
        DEF Start, Deny, AllowRead, Read, Abort, FinishTool
      <4>2. seen'[a] = seen[a]
        BY <2>1, <3>3
        DEF Start, Deny, AllowRead, Read, Abort, fileVars
      <4> QED
        BY <3>1, <4>1, <4>2, StaysInformed DEF leaseVars, KeptBy
    <3> QED
      BY <1>1, <3>1, <3>2, <3>3
  <2>2. ASSUME NEW b \in Agent, EndTurn(b), pc[b] = "head" PROVE Informed(a)'
    <3>1. a # b
      BY <1>1, <2>2
    <3>2. /\ pc'[a] = pc[a]
          /\ UNCHANGED <<call, text, seen, stray>>
      BY <2>2, <3>1 DEF EndTurn, fileVars
    <3>3. holder'[Target(a)] = a => KeptBy(a)
      BY <2>0, <2>2, <3>1, LoopAssumption DEF EndTurn, ReleaseHeld, KeptBy
    <3> QED
      BY <3>2, <3>3, StaysInformed
  <2>3. ASSUME NEW b \in Agent, Round(b) \/ NextCall(b), ~EndTurn(b)
        PROVE  Informed(a)'
    <3>1. /\ pc[b] = "head"
          /\ UNCHANGED <<leaseVars, fileVars, text>>
          /\ a # b => pc'[a] = pc[a] /\ call'[a] = call[a]
      BY <2>3 DEF Round, NextCall, FinishTool
    <3> QED
      BY <1>1, <3>1, StaysInformed DEF leaseVars, KeptBy, fileVars
  <2>4. ASSUME NEW b \in Agent, AllowWrite(b) PROVE Informed(a)'
    <3>1. a # b
      BY <1>1, <2>4 DEF AllowWrite
    <3>2. /\ UNCHANGED <<seen, stray, text>>
          /\ pc'[a] = pc[a] /\ call'[a] = call[a]
      BY <2>4, <3>1 DEF AllowWrite, FinishTool, fileVars
    <3>3. holder'[Target(a)] = a => KeptBy(a)
      BY <2>0, <2>4, <3>1 DEF AllowWrite, Acquire, leaseVars, KeptBy
    <3> QED
      BY <3>2, <3>3, StaysInformed
  <2>5. ASSUME NEW b \in Agent, Check(b) \/ Fetch(b) PROVE Informed(a)'
    <3>1. UNCHANGED <<leaseVars, fileVars>>
      BY <2>5 DEF Check, Fetch
    <3>2. CASE a # b
      BY <2>5, <3>1, <3>2, StaysInformed
      DEF Check, Fetch, FinishTool, KeptBy, leaseVars, fileVars
    <3>3. CASE a = b
      <4>1. CASE FinishTool(b)
        BY <3>3, <4>1, NothingToKnow DEF FinishTool
      <4>2. CASE ~FinishTool(b)
        BY <1>1, <2>5, <3>1, <3>3, <4>2
        DEF Check, Fetch, Informed, Target, Holds, leaseVars, fileVars
      <4> QED
        BY <4>1, <4>2
    <3> QED
      BY <3>2, <3>3
  <2>6. ASSUME NEW b \in Agent, Land(b) PROVE Informed(a)'
    <3>1. CASE a = b
      BY <2>6, <3>1, NothingToKnow DEF Land, FinishTool
    <3>2. CASE a # b
      <4>1. pc'[a] = pc[a] /\ call'[a] = call[a] /\ UNCHANGED leaseVars
        BY <2>6, <3>2 DEF Land, FinishTool
      <4>2. CASE UNCHANGED fileVars /\ text' = [text EXCEPT ![b] = "unread"]
        BY <3>2, <4>1, <4>2, StaysInformed DEF leaseVars, KeptBy, fileVars
      <4>3. CASE ~(UNCHANGED fileVars /\ text' = [text EXCEPT ![b] = "unread"])
        <5>1. /\ seen' = SeenAfter(b, Target(b))
              /\ text' = [TextAfter(Target(b)) EXCEPT ![b] = "unread"]
              /\ stray' = IF Holds(b, Target(b)) THEN stray
                                                ELSE stray \cup {Target(b)}
          BY <2>6, <4>3 DEF Land
        <5>2. Target(b) \in File
          BY <2>6 DEF Land, InCall, Call, Target
        <5>3. CASE Target(a) # Target(b)
          <6>1. seen'[a][Target(a)] = seen[a][Target(a)]
            BY <2>0, <5>1, <5>2, <5>3 DEF SeenAfter
          <6>2. text'[a] = text[a]
            BY <3>2, <5>1, <5>3 DEF TextAfter
          <6> QED
            BY <4>1, <5>1, <6>1, <6>2, StaysInformed DEF leaseVars, KeptBy
        <5>4. CASE Target(a) = Target(b)
          <6>1. Target(a)' = Target(b)
            BY <4>1, <5>4 DEF Target
          <6>2. CASE Holds(b, Target(b))
            BY <3>2, <4>1, <6>1, <6>2 DEF Informed, Holds, leaseVars
          <6>3. CASE ~Holds(b, Target(b))
            BY <5>1, <6>1, <6>3 DEF Informed
          <6> QED
            BY <6>2, <6>3
        <5> QED
          BY <5>3, <5>4
      <4> QED
        BY <4>2, <4>3
    <3> QED
      BY <3>1, <3>2
  <2>7. ASSUME NEW b \in Agent, Interrupt(b) PROVE Informed(a)'
    <3>1. pc'[a] = pc[a] /\ call'[a] = call[a]
      BY <1>1, <2>7 DEF Interrupt, FailAsks, FinishTool
    <3>2. UNCHANGED <<text, seen, stray>>
      BY <2>7 DEF Interrupt, fileVars
    <3>3. holder'[Target(a)] = a => KeptBy(a)
      BY <2>0, <2>7, LoopAssumption DEF Interrupt, ReleaseHeld, KeptBy
    <3> QED
      BY <3>1, <3>2, <3>3, StaysInformed
  <2>8. ASSUME NEW f \in File, Expire(f) PROVE Informed(a)'
    BY <2>8, StaysInformed DEF KeptBy, Expire, fileVars
  <2>9. ASSUME HostExit PROVE Informed(a)'
    BY <2>9, NothingToKnow DEF HostExit
  <2>10. CASE UNCHANGED vars
    BY <2>10, StaysInformed DEF KeptBy, vars, leaseVars, fileVars
  <2>11. ASSUME NEW b \in Agent, Round(b) \/ NextCall(b) PROVE pc[b] = "head"
    BY <2>11 DEF Round, NextCall
  <2> QED
    BY <2>1, <2>2, <2>3, <2>4, <2>5, <2>6, <2>7, <2>8, <2>9, <2>10, <2>11
    DEF Next, LoopStep, Decide
<1>2. CASE pc[a] = "checking"
  <2>1. CASE Check(a)
    <3>1. CASE FinishTool(a)
      BY <3>1, NothingToKnow DEF FinishTool
    <3>2. CASE ~FinishTool(a)
      <4>1. PICK compared \in BOOLEAN :
              /\ compared => ~Stale(Target(a), a)
              /\ call' = [call EXCEPT ![a].compared = compared]
        BY <2>1, <3>2 DEF Check
      <4>2. /\ pc' = [pc EXCEPT ![a] = IF call[a].tool = "edit" THEN "fetching"
                                                                ELSE "writing"]
            /\ UNCHANGED seen
        BY <2>1, <3>2 DEF Check, fileVars
      <4>3. call[a] \in Call
        BY <1>2 DEF InCall
      <4>4. /\ call'[a].compared = compared
            /\ call'[a].tool = call[a].tool
            /\ call'[a].file = call[a].file
        BY <4>1, <4>3 DEF Call
      <4> QED
        BY <4>1, <4>2, <4>4 DEF Stale, Informed, Target
    <3> QED
      BY <3>1, <3>2
  <2>2. CASE ~Check(a)
    <3>1. pc'[a] \in {"checking", "head", "idle"}
      BY <1>2, <2>2
      DEF Next, LoopStep, Decide, Start, Round, NextCall, EndTurn, FinishTool,
          Deny, AllowRead, AllowWrite, Read, Check, Fetch, Land, Abort,
          Interrupt, FailAsks, Expire, HostExit, vars
    <3> QED
      BY <3>1, NothingToKnow
  <2> QED
    BY <2>1, <2>2
<1>3. CASE pc[a] \notin {"checking", "fetching", "writing"}
  <2>1. pc'[a] \notin {"fetching", "writing"}
    BY <1>3
    DEF Next, LoopStep, Decide, Start, Round, NextCall, EndTurn, FinishTool,
        Deny, AllowRead, AllowWrite, Read, Check, Fetch, Land, Abort,
        Interrupt, FailAsks, Expire, HostExit, vars
  <2> QED
    BY <2>1, NothingToKnow
<1> QED
  BY <1>1, <1>2, <1>3

\* A write replaces a text its agent has seen, while its lease is in force and
\* no write without a lease has come in between.
THEOREM WritesAreInformed == Spec => []WriteReplacesWhatWasSeen
<1> DEFINE Inv == TypeInv /\ \A a \in Agent : Informed(a)
<1>1. Init => Inv
  BY InitTypes DEF Init, Informed
<1>2. Inv /\ [Next]_vars => Inv'
  BY StepTypes, StepInformed
<1>3. Inv => WriteReplacesWhatWasSeen
  BY DEF Informed, WriteReplacesWhatWasSeen
<1> QED
  BY <1>1, <1>2, <1>3, PTL DEF Spec, SafeSpec
=============================================================================
