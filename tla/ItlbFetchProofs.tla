-------------------------- MODULE ItlbFetchProofs --------------------------
(***************************************************************************)
(* Safety of ItlbFetch for any number of slots and pages, whatever is      *)
(* invalidated.  The request of the miss is followed from the queue        *)
(* through the pipeline and the walk (Pipe); from the start of the miss to *)
(* its answer its page is not in the TLB (Absent), so that a refill brings *)
(* no second entry of a page.                                              *)
(***************************************************************************)
EXTENDS ItlbFetch, FiniteSetTheorems, NaturalsInduction, WellFoundedInduction, TLAPS

\* Where the request of the miss is
Pipe ==
  /\ IF st \in {"wfc", "abt"}
     THEN \E v \in Vpn : (que = v /\ walks = {}) \/ (que = NoVpn /\ walks = {v})
     ELSE que = NoVpn /\ walks = {}
  /\ credit <=> que = NoVpn
  /\ sent <=> raw # NoVpn \/ fin # NoAnswer
  /\ raw # NoVpn => raw = que /\ fin = NoAnswer
  /\ fin # NoAnswer => fin.vpn = que
  /\ ptw # NoAnswer => ptw.vpn \in walks

\* The page missed is not in the TLB, and the fetch is held
Absent ==
  /\ st = "wfg" /\ ~abort => fetch \in Vpn /\ fetch \notin Cached
  /\ st = "wfc" => \A v \in Vpn : v = que \/ v \in walks => v \notin Cached
  /\ st = "wfc" /\ ~abort => fetch \in Vpn /\ (fetch = que \/ fetch \in walks)

IInv == TypeOK /\ Pipe /\ Absent /\ NoDuplicateEntry

-----------------------------------------------------------------------------
LEMMA SlotsNat == Slot \subseteq Nat /\ Fast \subseteq Slot /\ Fast # {}
BY SlotAssumption DEF Slot

\* A set of slots that is not empty has a least one.
LEMMA LeastIn ==
  ASSUME NEW S \in SUBSET Slot, S # {}
  PROVE  Least(S) \in S
<1>1. S \in SUBSET Nat
  BY SlotsNat
<1>2. PICK x \in S : \A y \in S : ~(<<y, x>> \in OpToRel(<, Nat))
  BY <1>1, NatLessThanWellFounded, WFMin
<1>3. \A y \in S : ~(y < x)
  BY <1>1, <1>2 DEF OpToRel
<1>4. \A y \in S : x <= y
  BY <1>1, <1>3
<1> QED
  BY <1>4 DEF Least

\* An answer is to the request that is out.
LEMMA AnswerOfRequest ==
  ASSUME TypeOK, Pipe, Ans # NoAnswer
  PROVE  /\ st \in {"wfc", "abt"}
         /\ Ans.vpn \in Vpn /\ (Ans.vpn = que \/ Ans.vpn \in walks)
         /\ Ans.kind \in {"page", "flt", "acc"}
<1>1. CASE fin.kind \in {"page", "flt"}
  <2>1. fin # NoAnswer /\ Ans = fin
    BY <1>1 DEF NoAnswer, Ans
  <2>2. fin.vpn \in Vpn /\ fin.vpn = que
    BY <2>1 DEF TypeOK, Pipe
  <2> QED
    BY <1>1, <2>1, <2>2, VpnAssumption DEF Pipe
<1>2. CASE fin.kind \notin {"page", "flt"}
  <2>1. Ans = ptw /\ ptw \in Answer
    BY <1>2 DEF Ans, TypeOK
  <2>2. ptw.vpn \in walks
    BY <2>1 DEF Pipe
  <2> QED
    BY <2>1, <2>2 DEF Pipe, Answer
<1> QED
  BY <1>1, <1>2

\* Without a request, nothing of one is left in the pipeline.
LEMMA Nothing ==
  ASSUME TypeOK, Pipe, st \notin {"wfc", "abt"}
  PROVE  /\ que = NoVpn /\ walks = {} /\ credit /\ ~sent
         /\ raw = NoVpn /\ fin = NoAnswer /\ ptw = NoAnswer /\ Ans = NoAnswer
<1>1. que = NoVpn /\ walks = {} /\ credit
  BY DEF Pipe
<1>2. raw = NoVpn
  BY <1>1 DEF Pipe
<1>3. fin = NoAnswer
  BY <1>1, VpnAssumption DEF Pipe, TypeOK
<1>4. ptw = NoAnswer
  BY <1>1 DEF Pipe
<1> QED
  BY <1>1, <1>2, <1>3, <1>4 DEF Pipe, Ans, NoAnswer

-----------------------------------------------------------------------------
\* The registers keep to their ranges.
LEMMA TypeStep ==
  ASSUME TypeOK, Pipe, NEW miss \in BOOLEAN, NEW go \in BOOLEAN, NEW req \in Requested,
         Cycle(miss, req, go)
  PROVE  TypeOK'
<1> USE DEF TypeOK, L1ItlbTypeOK
<1>1. req \in Vpn \cup {NoVpn}
  BY DEF Requested
<1>2. Ans.vpn \in Vpn \/ Refilled(Ans) = {}
  <2>1. Ans = NoAnswer => Refilled(Ans) = {}
    BY DEF NoAnswer, Refilled
  <2> QED
    BY <2>1, AnswerOfRequest
<1>3. Refilled(Ans) \subseteq Slot
  BY DEF Refilled
<1>4. Hit(fetch) \subseteq vld /\ Fast \subseteq Slot
  BY SlotsNat DEF Hit
<1>5. SwpEn(fetch) => fetch \in Vpn
  BY DEF SwpEn, Hit
<1>6. Swapped(fetch) \in [Slot -> Vpn]
  BY <1>4, <1>5 DEF Swapped
<1>7. SwappedVld(fetch) \subseteq Slot
  BY <1>4 DEF SwappedVld
<1>8. vld' \subseteq Slot
  BY <1>3, <1>7 DEF Cycle, L1ItlbEdge
<1>9. vpn' \in [Slot -> Vpn]
  BY <1>2, <1>3, <1>6 DEF Cycle, L1ItlbEdge
<1>10. wen' \in Fast
  <2>1. {f \in Fast : f > wen} \in SUBSET Slot /\ Fast \in SUBSET Slot /\ Fast # {}
    BY SlotsNat
  <2>2. NextFast \in Fast
    <3>1. CASE \E f \in Fast : f > wen
      BY <2>1, <3>1, LeastIn DEF NextFast
    <3>2. CASE ~\E f \in Fast : f > wen
      BY <2>1, <3>2, LeastIn DEF NextFast
    <3> QED
      BY <3>1, <3>2
  <2> QED
    BY <2>2 DEF Cycle, L1ItlbEdge
<1>11. victim' \in Slot
  <2>1. Victims \subseteq Slot
    <3>1. CASE vld = Slot
      BY <3>1 DEF Victims
    <3>2. CASE vld # Slot
      <4>1. Slot \ vld \in SUBSET Slot /\ Slot \ vld # {}
        BY <3>2
      <4>2. Least(Slot \ vld) \in Slot \ vld
        BY <4>1, LeastIn
      <4> QED
        BY <3>2, <4>2 DEF Victims
    <3> QED
      BY <3>1, <3>2
  <2> QED
    BY <2>1 DEF Cycle, L1ItlbEdge
<1>12. st' \in {"idle", "wfg", "wfc", "pgflt", "abt"}
  BY DEF Cycle, L1ItlbEdge, NextSt
<1>13. credit' \in BOOLEAN
  BY DEF Cycle, L1ItlbEdge, Dealloc, Request
<1>14. fetch' \in Vpn \cup {NoVpn} /\ abort' \in BOOLEAN /\ inv' \in Invs
  BY DEF Cycle, IfuEdge
<1>15. que' \in Vpn \cup {NoVpn} /\ sent' \in BOOLEAN /\ raw' \in Vpn \cup {NoVpn}
  BY <1>1 DEF Cycle, QueEdge, QReady
<1>16. fin' \in [vpn : Vpn, kind : Result] \cup {NoAnswer}
  BY DEF Cycle, L2Edge
<1>17. walks' \subseteq Vpn
  <2>1. fin.kind = "walk" => fin.vpn \in Vpn
    BY DEF NoAnswer
  <2> QED
    BY <2>1 DEF Cycle, L2Edge
<1>18. ptw' \in Answer \cup {NoAnswer}
  BY <1>17 DEF Cycle, L2Edge, Answer
<1> QED
  BY <1>8, <1>9, <1>10, <1>11, <1>12, <1>13, <1>14, <1>15, <1>16, <1>17, <1>18

\* The request stays one, on its way from the queue to the answer.
LEMMA PipeStep ==
  ASSUME TypeOK, Pipe, NEW miss \in BOOLEAN, NEW go \in BOOLEAN, NEW req \in Requested,
         Cycle(miss, req, go)
  PROVE  Pipe'
<1> USE VpnAssumption
<1>1. /\ st' = NextSt(abort, miss, Ans)
      /\ credit' = (Dealloc \/ (credit /\ ~Request))
      /\ QueEdge(req, go) /\ L2Edge
      /\ go => QReady \/ req # NoVpn
  BY DEF Cycle, L1ItlbEdge
<1>2. st \in {"idle", "wfg", "wfc", "pgflt", "abt"}
  BY DEF TypeOK, L1ItlbTypeOK
<1>3. CASE st \in {"idle", "pgflt"}
  <2>1. /\ que = NoVpn /\ walks = {} /\ credit /\ ~sent
        /\ raw = NoVpn /\ fin = NoAnswer /\ ptw = NoAnswer /\ Ans = NoAnswer
    BY <1>3, Nothing
  <2>2. req = NoVpn /\ ~go /\ ~Dealloc /\ ~Request
    BY <1>1, <1>3, <2>1 DEF Requested, Request, QReady, Dealloc
  <2>3. st' \in {"idle", "wfg"}
    BY <1>1, <1>3 DEF NextSt
  <2>4. que' = NoVpn /\ ~sent' /\ raw' = NoVpn /\ credit'
    BY <1>1, <2>1, <2>2 DEF QueEdge
  <2>5. fin' = NoAnswer /\ walks' = {} /\ ptw' = NoAnswer
    BY <1>1, <2>1 DEF L2Edge, NoAnswer
  <2> QED
    BY <2>3, <2>4, <2>5 DEF Pipe
<1>4. CASE st = "wfg"
  <2>1. /\ que = NoVpn /\ walks = {} /\ credit /\ ~sent
        /\ raw = NoVpn /\ fin = NoAnswer /\ ptw = NoAnswer /\ Ans = NoAnswer
    BY <1>4, Nothing
  <2>2. req \in Vpn /\ ~Dealloc /\ Request /\ ~QReady
    BY <1>4, <2>1 DEF Requested, Request, QReady, Dealloc, TypeOK
  <2>3. st' \in {"wfc", "abt"}
    BY <1>1, <1>4, <2>1 DEF NextSt
  <2>4. que' = req /\ sent' = go /\ raw' = (IF go THEN req ELSE NoVpn) /\ ~credit'
    BY <1>1, <2>1, <2>2 DEF QueEdge
  <2>5. fin' = NoAnswer /\ walks' = {} /\ ptw' = NoAnswer
    BY <1>1, <2>1 DEF L2Edge, NoAnswer
  <2> QED
    BY <2>2, <2>3, <2>4, <2>5 DEF Pipe
<1>5. CASE st \in {"wfc", "abt"}
  <2>1. req = NoVpn /\ ~Request
    BY <1>5 DEF Requested, Request
  <2>2. Ans = NoAnswer => st' \in {"wfc", "abt"}
    BY <1>1, <1>5, SMT DEF NextSt, NoAnswer
  <2>3. Ans # NoAnswer => st' \in {"idle", "pgflt"}
    BY <1>1, <1>5 DEF NextSt
  <2>4. PICK v \in Vpn : (que = v /\ walks = {}) \/ (que = NoVpn /\ walks = {v})
    BY <1>5 DEF Pipe
  <2>5. CASE que = v /\ walks = {} /\ fin = NoAnswer
    <3>1. ptw = NoAnswer /\ Ans = NoAnswer /\ ~credit /\ ~Dealloc
      BY <2>5 DEF Pipe, Ans, NoAnswer, Dealloc
    <3>2. que' = v /\ walks' = {} /\ ptw' = NoAnswer /\ ~credit'
      BY <1>1, <2>1, <2>5, <3>1 DEF QueEdge, L2Edge, NoAnswer
    <3>3. CASE raw = NoVpn
      <4>1. ~sent /\ QReady
        BY <2>5, <3>3 DEF Pipe, QReady
      <4>2. fin' = NoAnswer /\ sent' = go /\ raw' = (IF go THEN v ELSE NoVpn)
        BY <1>1, <2>1, <2>5, <3>3, <4>1 DEF QueEdge, L2Edge
      <4> QED
        BY <2>2, <3>1, <3>2, <4>2 DEF Pipe
    <3>4. CASE raw # NoVpn
      <4>1. sent /\ raw = v /\ ~go
        BY <1>1, <2>1, <2>5, <3>4 DEF Pipe, QReady
      <4>2. raw' = NoVpn /\ sent'
        BY <1>1, <2>1, <2>5, <4>1 DEF QueEdge
      <4>3. fin' \in [vpn : {v}, kind : Result]
        BY <1>1, <3>4, <4>1 DEF L2Edge
      <4>4. fin' # NoAnswer /\ fin'.vpn = v
        BY <4>3 DEF NoAnswer
      <4> QED
        BY <2>2, <3>1, <3>2, <4>2, <4>4 DEF Pipe
    <3> QED
      BY <3>3, <3>4
  <2>6. CASE que = v /\ walks = {} /\ fin # NoAnswer
    <3>1. /\ ptw = NoAnswer /\ sent /\ raw = NoVpn /\ ~credit /\ ~go
          /\ fin.vpn = v /\ fin.kind \in Result
      BY <1>1, <2>1, <2>6 DEF Pipe, QReady, TypeOK
    <3>2. raw' = NoVpn /\ fin' = NoAnswer /\ ~sent'
      BY <1>1, <2>1, <2>6, <3>1 DEF QueEdge, L2Edge
    <3>3. CASE fin.kind = "retry"
      <4>1. Ans = NoAnswer /\ ~Dealloc
        BY <3>1, <3>3 DEF Ans, Dealloc
      <4>2. que' = v /\ walks' = {} /\ ptw' = NoAnswer /\ ~credit'
        BY <1>1, <2>1, <2>6, <3>1, <3>3, <4>1 DEF QueEdge, L2Edge, NoAnswer
      <4> QED
        BY <2>2, <3>2, <4>1, <4>2 DEF Pipe
    <3>4. CASE fin.kind = "walk"
      <4>1. Ans = NoAnswer /\ Dealloc
        BY <2>6, <3>1, <3>4 DEF Ans, Dealloc
      <4>2. que' = NoVpn /\ walks' = {v} /\ credit'
        BY <1>1, <2>6, <3>1, <3>4, <4>1 DEF QueEdge, L2Edge, NoAnswer
      <4>3. ptw' # NoAnswer => ptw'.vpn \in walks'
        BY <1>1 DEF L2Edge
      <4> QED
        BY <2>2, <3>2, <4>1, <4>2, <4>3 DEF Pipe
    <3>5. CASE fin.kind \in {"page", "flt"}
      <4>1. Ans = fin /\ Dealloc
        BY <2>6, <3>1, <3>5 DEF Ans, Dealloc
      <4>2. que' = NoVpn /\ walks' = {} /\ ptw' = NoAnswer /\ credit'
        BY <1>1, <2>6, <3>1, <3>5, <4>1 DEF QueEdge, L2Edge, NoAnswer
      <4> QED
        BY <2>3, <2>6, <3>2, <4>1, <4>2 DEF Pipe
    <3> QED
      BY <3>1, <3>3, <3>4, <3>5 DEF Result
  <2>7. CASE que = NoVpn /\ walks = {v}
    <3>1. raw = NoVpn /\ fin = NoAnswer /\ ~sent /\ credit /\ ~Dealloc /\ ~go
      BY <1>1, <2>1, <2>7 DEF Pipe, TypeOK, QReady, Dealloc
    <3>2. Ans = ptw
      BY <3>1 DEF Ans, NoAnswer
    <3>3. que' = NoVpn /\ raw' = NoVpn /\ fin' = NoAnswer /\ ~sent' /\ credit'
      BY <1>1, <2>1, <2>7, <3>1 DEF QueEdge, L2Edge
    <3>4. ptw' # NoAnswer => ptw'.vpn \in walks'
      BY <1>1 DEF L2Edge
    <3>5. CASE ptw = NoAnswer
      <4>1. walks' = {v}
        BY <1>1, <2>7, <3>1, <3>5 DEF L2Edge, NoAnswer
      <4> QED
        BY <2>2, <3>2, <3>3, <3>4, <3>5, <4>1 DEF Pipe
    <3>6. CASE ptw # NoAnswer
      <4>1. walks' = {}
        BY <1>1, <2>7, <3>1, <3>6 DEF L2Edge, NoAnswer, Pipe
      <4> QED
        BY <2>3, <3>2, <3>3, <3>4, <3>6, <4>1 DEF Pipe
    <3> QED
      BY <3>5, <3>6
  <2> QED
    BY <2>4, <2>5, <2>6, <2>7
<1> QED
  BY <1>2, <1>3, <1>4, <1>5

-----------------------------------------------------------------------------
\* A page in the TLB after a cycle was there before or is the one refilled, and
\* each page has one slot if the page refilled was not there.
LEMMA Exchange ==
  ASSUME TypeOK, NoDuplicateEntry
  PROVE  /\ \A s \in SwappedVld(fetch) : Swapped(fetch)[s] \in Cached
         /\ \A s, t \in SwappedVld(fetch) : Swapped(fetch)[s] = Swapped(fetch)[t] => s = t
<1> USE DEF TypeOK, L1ItlbTypeOK
<1>1. CASE ~SwpEn(fetch)
  BY <1>1 DEF Swapped, SwappedVld, NoDuplicateEntry, Cached
<1>2. CASE SwpEn(fetch)
  <2>1. PICK h \in vld : vpn[h] = fetch
    BY <1>2 DEF SwpEn, Hit
  <2>2. Hit(fetch) = {h}
    BY <2>1 DEF Hit, NoDuplicateEntry
  <2>3. h # wen /\ h \in Slot /\ wen \in Slot
    BY <1>2, <2>2, SlotsNat DEF SwpEn
  <2>4. /\ Swapped(fetch)[wen] = fetch
        /\ Swapped(fetch)[h] = vpn[wen]
        /\ \A s \in Slot \ {h, wen} : Swapped(fetch)[s] = vpn[s]
    BY <1>2, <2>2, <2>3 DEF Swapped
  <2>5. SwappedVld(fetch) = (vld \ {h}) \cup {wen} \cup (IF wen \in vld THEN {h} ELSE {})
    BY <1>2, <2>2 DEF SwappedVld
  <2>6. \A s \in SwappedVld(fetch) : Swapped(fetch)[s] \in Cached
    BY <2>1, <2>3, <2>4, <2>5 DEF Cached
  <2>7. ASSUME NEW s \in SwappedVld(fetch), NEW t \in SwappedVld(fetch),
               Swapped(fetch)[s] = Swapped(fetch)[t]
        PROVE  s = t
    <3> DEFINE from(x) == IF x = wen THEN h ELSE IF x = h THEN wen ELSE x
    <3>1. from(s) \in vld /\ from(t) \in vld
      BY <2>1, <2>5
    <3>2. vpn[from(s)] = vpn[from(t)]
      BY <2>1, <2>3, <2>4, <2>5, <2>7
    <3>3. from(s) = from(t)
      BY <3>1, <3>2 DEF NoDuplicateEntry
    <3> QED
      BY <2>3, <3>3
  <2> QED
    BY <2>6, <2>7
<1> QED
  BY <1>1, <1>2

\* The page of the answer to a miss that has not been given up is not in the TLB.
LEMMA RefillIsNew ==
  ASSUME IInv, Refilled(Ans) # {}
  PROVE  /\ st = "wfc" /\ Refilled(Ans) = {victim} /\ victim \in Slot
         /\ Ans.vpn \in Vpn /\ (Ans.vpn = que \/ Ans.vpn \in walks)
         /\ Ans.vpn \notin Cached
<1>1. st = "wfc" /\ Refilled(Ans) = {victim} /\ Ans.kind = "page"
  BY DEF Refilled
<1>2. Ans # NoAnswer
  BY <1>1 DEF NoAnswer
<1>3. Ans.vpn \in Vpn /\ (Ans.vpn = que \/ Ans.vpn \in walks)
  BY <1>2, AnswerOfRequest DEF IInv
<1> QED
  BY <1>1, <1>3 DEF IInv, Absent, TypeOK, L1ItlbTypeOK

LEMMA EntriesStep ==
  ASSUME IInv, NEW miss \in BOOLEAN, NEW go \in BOOLEAN, NEW req \in Requested,
         Cycle(miss, req, go)
  PROVE  /\ NoDuplicateEntry'
         /\ Cached' \subseteq Cached \cup {Ans.vpn : s \in Refilled(Ans)}
<1>1. /\ vpn' = [s \in Slot |-> IF s \in Refilled(Ans) THEN Ans.vpn ELSE Swapped(fetch)[s]]
      /\ vld' \subseteq SwappedVld(fetch) \cup Refilled(Ans)
  BY DEF Cycle, L1ItlbEdge
<1>2. vld' \subseteq Slot
  BY TypeStep DEF IInv, TypeOK, L1ItlbTypeOK
<1>3. ASSUME NEW s \in vld'
      PROVE  \/ s \in Refilled(Ans) /\ vpn'[s] = Ans.vpn
             \/ /\ s \in SwappedVld(fetch) \ Refilled(Ans)
                /\ vpn'[s] = Swapped(fetch)[s] /\ vpn'[s] \in Cached
  <2>1. CASE s \in Refilled(Ans)
    BY <1>1, <1>2, <2>1
  <2>2. CASE s \notin Refilled(Ans)
    BY <1>1, <1>2, <2>2, Exchange DEF IInv
  <2> QED
    BY <2>1, <2>2
<1>4. \A s \in Refilled(Ans) : Refilled(Ans) = {s} /\ Ans.vpn \notin Cached
  BY RefillIsNew
<1>5. NoDuplicateEntry'
  <2> SUFFICES ASSUME NEW s \in vld', NEW t \in vld', vpn'[s] = vpn'[t]
               PROVE  s = t
    BY DEF NoDuplicateEntry
  <2>1. CASE s \in Refilled(Ans)
    BY <1>3, <1>4, <2>1
  <2>2. CASE s \notin Refilled(Ans)
    <3>1. t \notin Refilled(Ans)
      BY <1>3, <1>4, <2>2
    <3>2. s \in SwappedVld(fetch) /\ t \in SwappedVld(fetch)
      BY <1>3, <2>2, <3>1
    <3>3. Swapped(fetch)[s] = Swapped(fetch)[t]
      BY <1>3, <2>2, <3>1
    <3> QED
      BY <3>2, <3>3, Exchange DEF IInv
  <2> QED
    BY <2>1, <2>2
<1>6. Cached' \subseteq Cached \cup {Ans.vpn : s \in Refilled(Ans)}
  BY <1>3 DEF Cached
<1> QED
  BY <1>5, <1>6

\* A fetch that misses is held, and its page stays out of the TLB, until the answer.
LEMMA AbsentStep ==
  ASSUME IInv, NEW miss \in BOOLEAN, NEW go \in BOOLEAN, NEW req \in Requested,
         Cycle(miss, req, go)
  PROVE  Absent'
<1> USE VpnAssumption
<1>1. /\ st' = NextSt(abort, miss, Ans)
      /\ miss => MissOn(fetch)
      /\ QueEdge(req, go) /\ L2Edge /\ IfuEdge
  BY DEF Cycle, L1ItlbEdge
<1>2. /\ st \in {"idle", "wfg", "wfc", "pgflt", "abt"} /\ fetch \in Vpn \cup {NoVpn}
      /\ vpn \in [Slot -> Vpn] /\ vld \subseteq Slot
  BY DEF IInv, TypeOK, L1ItlbTypeOK
<1>3. Ans # NoAnswer => st \in {"wfc", "abt"}
  BY AnswerOfRequest DEF IInv
<1>4. Refilled(Ans) = {} => Cached' \subseteq Cached
  BY EntriesStep
<1>5. Ans = NoAnswer => Refilled(Ans) = {}
  BY DEF NoAnswer, Refilled
<1>6. Hit(fetch) = {} <=> fetch \notin Cached
  BY DEF Hit, Cached
<1>7. CASE st' \notin {"wfg", "wfc"}
  BY <1>7 DEF Absent
<1>8. CASE st' = "wfg"
  <2>1. Ans = NoAnswer
    BY <1>1, <1>2, <1>3, <1>8 DEF NextSt
  <2>2. st = "idle" /\ ~abort /\ miss
    <3>1. st = "wfg" => credit
      BY DEF IInv, Pipe
    <3> QED
      BY <1>1, <1>2, <1>8, <2>1, <3>1 DEF NextSt, NoAnswer
  <2>3. fetch \in Vpn /\ Hit(fetch) = {}
    BY <1>1, <1>2, <2>2 DEF MissOn
  <2>4. ~Answered
    BY <2>1, <2>2, <2>3 DEF Answered, PaVld, NoAnswer
  <2>5. ~abort' => fetch' = fetch
    BY <1>1, <2>2, <2>3, <2>4 DEF IfuEdge
  <2> QED
    BY <1>4, <1>5, <1>6, <1>8, <2>1, <2>3, <2>5 DEF Absent
<1>9. CASE st' = "wfc"
  <2>1. Ans = NoAnswer /\ ~abort /\ st \in {"wfg", "wfc"}
    BY <1>1, <1>2, <1>3, <1>9 DEF NextSt, NoAnswer
  <2>2. Cached' \subseteq Cached
    BY <1>4, <1>5, <2>1
  <2>3. fetch \in Vpn /\ fetch \notin Cached
    BY <2>1 DEF IInv, Absent
  <2>4. ~Answered
    BY <1>6, <2>1, <2>3 DEF Answered, PaVld, NoAnswer
  <2>5. ~abort' => fetch' = fetch
    BY <1>1, <2>1, <2>3, <2>4 DEF IfuEdge
  <2>6. CASE st = "wfg"
    <3>1. que = NoVpn /\ walks = {} /\ fin = NoAnswer /\ ptw = NoAnswer
      BY <2>6, Nothing DEF IInv
    <3>2. req = fetch
      BY <2>3, <2>6 DEF Requested, Request
    <3>3. que' = fetch /\ walks' = {}
      BY <1>1, <2>3, <3>1, <3>2 DEF QueEdge, L2Edge, Dealloc, NoAnswer
    <3> QED
      BY <2>2, <2>3, <2>5, <3>3 DEF Absent
  <2>7. CASE st = "wfc"
    <3>1. PICK v \in Vpn : (que = v /\ walks = {}) \/ (que = NoVpn /\ walks = {v})
      BY <2>7 DEF IInv, Pipe
    <3>2. v = fetch
      BY <2>1, <2>3, <2>7, <3>1 DEF IInv, Absent
    <3>3. PICK w \in Vpn : (que' = w /\ walks' = {}) \/ (que' = NoVpn /\ walks' = {w})
      BY <1>9, PipeStep DEF IInv, Pipe
    <3>4. req = NoVpn
      BY <2>7 DEF Requested, Request
    <3>5. que' \in {NoVpn, que}
      BY <1>1, <3>4 DEF QueEdge
    <3>6. walks' \subseteq walks \cup {que}
      BY <1>1 DEF L2Edge, IInv, Pipe, NoAnswer
    <3>7. w = fetch
      BY <3>1, <3>2, <3>3, <3>5, <3>6
    <3> QED
      BY <2>2, <2>3, <2>5, <3>3, <3>7 DEF Absent
  <2> QED
    BY <2>1, <2>6, <2>7
<1> QED
  BY <1>7, <1>8, <1>9

-----------------------------------------------------------------------------
LEMMA InitIInv == Init => IInv
<1> SUFFICES ASSUME Init
             PROVE  IInv
  OBVIOUS
<1> USE DEF Init, L1ItlbInit
<1>1. Least(Fast) \in Fast /\ Least(Slot) \in Slot
  BY SlotsNat, LeastIn
<1>2. TypeOK
  BY <1>1, InvAssumption DEF TypeOK, L1ItlbTypeOK
<1> QED
  BY <1>2 DEF IInv, Pipe, Absent, NoDuplicateEntry, NoAnswer

LEMMA NextIInv == IInv /\ [Next]_vars => IInv'
<1> SUFFICES ASSUME IInv, [Next]_vars
             PROVE  IInv'
  OBVIOUS
<1>1. CASE Next
  <2>1. PICK miss \in BOOLEAN, go \in BOOLEAN, req \in Requested : Cycle(miss, req, go)
    BY <1>1 DEF Next
  <2>2. TypeOK' /\ Pipe'
    BY <2>1, TypeStep, PipeStep DEF IInv
  <2>3. NoDuplicateEntry' /\ Absent'
    BY <2>1, EntriesStep, AbsentStep
  <2> QED
    BY <2>2, <2>3 DEF IInv
<1>2. CASE UNCHANGED vars
  BY <1>2 DEF IInv, TypeOK, L1ItlbTypeOK, Pipe, Absent, NoDuplicateEntry, Cached,
              vars, itlbVars, l2Vars
<1> QED
  BY <1>1, <1>2

THEOREM Invariance == Spec => []IInv
<1> QED
  BY InitIInv, NextIInv, PTL DEF Spec

\* Every register keeps to its range.
THEOREM TypeCorrect == Spec => []TypeOK
<1>1. IInv => TypeOK
  BY DEF IInv
<1> QED
  BY Invariance, <1>1, PTL

\* The L1 instruction TLB has one request out from the cycle after it is sent until
\* its answer, so that the queue, which does not look for room, has room, and the
\* answer to a miss that was not given up is for the fetch that is held.
THEOREM AnswerIsOfFetch == Spec => []OneRequest
<1>1. IInv => OneRequest
  <2> SUFFICES ASSUME IInv
               PROVE  OneRequest
    OBVIOUS
  <2>1. Ans # NoAnswer => /\ st \in {"wfc", "abt"}
                          /\ Ans.vpn = que \/ Ans.vpn \in walks
                          /\ Ans.vpn \in Vpn
    BY AnswerOfRequest DEF IInv
  <2>2. Ans # NoAnswer /\ st = "wfc" /\ ~abort => Ans.vpn = fetch
    <3> SUFFICES ASSUME Ans # NoAnswer, st = "wfc", ~abort
                 PROVE  Ans.vpn = fetch
      OBVIOUS
    <3>1. PICK v \in Vpn : (que = v /\ walks = {}) \/ (que = NoVpn /\ walks = {v})
      BY DEF IInv, Pipe
    <3>2. fetch \in Vpn /\ (fetch = que \/ fetch \in walks)
      BY DEF IInv, Absent
    <3> QED
      BY <2>1, <3>1, <3>2, VpnAssumption
  <2> QED
    BY <2>1, <2>2 DEF IInv, Pipe, OneRequest
<1> QED
  BY Invariance, <1>1, PTL

\* The TLB never holds two entries of a page, although slots exchange their entries
\* while another is refilled and fetches change in between.
THEOREM OneEntryPerPage == Spec => []NoDuplicateEntry
<1>1. IInv => NoDuplicateEntry
  BY DEF IInv
<1> QED
  BY Invariance, <1>1, PTL

\* Nothing is left after everything is invalidated, and of a page that is invalidated
\* while it is in the TLB only an entry that is being exchanged in that cycle can
\* stay: of the two slots, neither compares what it is given.
THEOREM OnlyExchangedStay == Spec => InvClears
<1> DEFINE Clears ==
      /\ inv = "all" => Cached' = {}
      /\ inv \in Cached /\ inv \in Cached' => SwpEn(fetch) /\ inv \in {fetch, vpn[wen]}
<1>1. ASSUME IInv, Next
      PROVE  Clears
  <2>1. PICK miss \in BOOLEAN, go \in BOOLEAN, req \in Requested : Cycle(miss, req, go)
    BY <1>1 DEF Next
  <2>2. /\ vpn' = [s \in Slot |-> IF s \in Refilled(Ans) THEN Ans.vpn ELSE Swapped(fetch)[s]]
        /\ vld' = (SwappedVld(fetch) \cup Refilled(Ans)) \ Cleared(inv)
    BY <2>1 DEF Cycle, L1ItlbEdge
  <2>3. vld' \subseteq Slot /\ vpn \in [Slot -> Vpn]
    BY <1>1, <2>1, TypeStep DEF IInv, TypeOK, L1ItlbTypeOK
  <2>4. inv = "all" => Cached' = {}
    <3>1. inv = "all" => Cleared(inv) = Slot
      BY InvAssumption DEF Cleared
    <3> QED
      BY <2>2, <2>3, <3>1 DEF Cached
  <2>5. ASSUME inv \in Cached, inv \in Cached'
        PROVE  SwpEn(fetch) /\ inv \in {fetch, vpn[wen]}
    <3>1. PICK s \in vld' : vpn'[s] = inv
      BY <2>5 DEF Cached
    <3>2. inv \in Vpn
      BY <1>1, <2>5 DEF Cached, IInv, TypeOK, L1ItlbTypeOK
    <3>3. s \in Slot /\ vpn[s] # inv
      BY <2>2, <2>3, <3>1, <3>2 DEF Cleared
    <3>4. s \notin Refilled(Ans)
      BY <1>1, <2>2, <2>3, <2>5, <3>1, RefillIsNew
    <3>5. Swapped(fetch)[s] = inv
      BY <2>2, <3>1, <3>3, <3>4
    <3> QED
      BY <3>3, <3>5 DEF Swapped
  <2> QED
    BY <2>4, <2>5
<1>2. IInv /\ [Next]_vars => [Clears]_vars
  BY <1>1
<1>3. InvClears <=> [][Clears]_vars
  BY DEF InvClears
<1> QED
  BY Invariance, <1>2, <1>3, PTL DEF Spec

-----------------------------------------------------------------------------
(***************************************************************************)
(* The TLB implements PageMisses.                                          *)
(***************************************************************************)
\* At most one page has a miss.
LEMMA PendingIsOne ==
  ASSUME IInv
  PROVE  /\ \A v, w \in Pending : v = w
         /\ st \in {"wfc", "abt"} => \E v \in Vpn : Pending = {v} /\ (v = que \/ v \in walks)
<1>1. CASE st \in {"wfc", "abt"}
  <2>1. PICK v \in Vpn : (que = v /\ walks = {}) \/ (que = NoVpn /\ walks = {v})
    BY <1>1 DEF IInv, Pipe
  <2>2. Pending = {v}
    BY <1>1, <2>1, VpnAssumption DEF Pending
  <2> QED
    BY <2>1, <2>2
<1>2. CASE st \notin {"wfc", "abt"}
  BY <1>2 DEF Pending
<1> QED
  BY <1>1, <1>2

LEMMA MissLimit == IInv => Cardinality({v \in Vpn : MissOf[v] # "none"}) <= 1
<1> SUFFICES ASSUME IInv
             PROVE  Cardinality({v \in Vpn : MissOf[v] # "none"}) <= 1
  OBVIOUS
<1> DEFINE S == {v \in Vpn : MissOf[v] # "none"}
<1>1. \A v, w \in S : v = w
  BY PendingIsOne DEF MissOf
<1>2. CASE S = {}
  BY <1>2, FS_EmptySet
<1>3. CASE S # {}
  <2>1. PICK v \in S : TRUE
    BY <1>3
  <2>2. S = {v}
    BY <1>1, <2>1
  <2> QED
    BY <2>2, FS_Singleton
<1> QED
  BY <1>2, <1>3

\* Without an answer the request stays what it is.
LEMMA RequestStays ==
  ASSUME IInv, NEW miss \in BOOLEAN, NEW go \in BOOLEAN, NEW req \in Requested,
         Cycle(miss, req, go), st \in {"wfc", "abt"}, Ans = NoAnswer
  PROVE  Pending' = Pending /\ st' = IF abort THEN "abt" ELSE st
<1> USE VpnAssumption
<1>1. st' = NextSt(abort, miss, Ans) /\ QueEdge(req, go) /\ L2Edge
  BY DEF Cycle, L1ItlbEdge
<1>2. st' = IF abort THEN "abt" ELSE st
  BY <1>1, SMT DEF NextSt, NoAnswer
<1>3. PICK v \in Vpn : (que = v /\ walks = {}) \/ (que = NoVpn /\ walks = {v})
  BY DEF IInv, Pipe
<1>4. PICK w \in Vpn : (que' = w /\ walks' = {}) \/ (que' = NoVpn /\ walks' = {w})
  BY <1>2, PipeStep DEF IInv, Pipe
<1>5. req = NoVpn
  BY DEF Requested, Request
<1>6. que' \in {NoVpn, que}
  BY <1>1, <1>5 DEF QueEdge
<1>7. walks' \subseteq walks \cup {que}
  BY <1>1 DEF L2Edge, IInv, Pipe, NoAnswer
<1>8. w = v
  BY <1>3, <1>4, <1>6, <1>7
<1> QED
  BY <1>2, <1>3, <1>4, <1>8 DEF Pending

\* Every cycle is one of PageMisses: a refill is the answer to the page asked for.
LEMMA MissStep ==
  ASSUME IInv, IInv', NEW miss \in BOOLEAN, NEW go \in BOOLEAN, NEW req \in Requested,
         Cycle(miss, req, go)
  PROVE  Misses!Next
<1> USE VpnAssumption
<1> DEFINE in == {Ans.vpn : s \in Refilled(Ans)}
           Moves(asked, flush) ==
             \A v \in Vpn :
               MissOf'[v] \in IF flush THEN Misses!GivenUp(MissOf[v], v \in asked)
                              ELSE Misses!Goes(MissOf[v], v \in asked, v \in in)
<1>1. /\ st' = NextSt(abort, miss, Ans)
      /\ QueEdge(req, go) /\ L2Edge /\ IfuEdge
  BY DEF Cycle, L1ItlbEdge
<1>2. st \in {"idle", "wfg", "wfc", "pgflt", "abt"} /\ fetch \in Vpn \cup {NoVpn}
  BY DEF IInv, TypeOK, L1ItlbTypeOK
<1>3. /\ MissOf' \in [Vpn -> Misses!Status]
      /\ Cardinality({v \in Vpn : MissOf'[v] # "none"}) <= 1
  <2>1. StatusIn \in Misses!Status /\ StatusIn' \in Misses!Status
    BY DEF StatusIn, Misses!Status
  <2>2. MissOf' \in [Vpn -> Misses!Status]
    BY <2>1 DEF MissOf, Misses!Status
  <2>3. IInv' => (Cardinality({v \in Vpn : MissOf[v] # "none"}) <= 1)'
    BY MissLimit, PTL
  <2> QED
    BY <2>2, <2>3
<1>4. /\ Cached' \subseteq Cached \cup in
      /\ in \in Misses!AtMostOne({v \in Vpn : MissOf[v] \in {"asked", "arrived"}})
      /\ Ans = NoAnswer \/ Ans.kind # "page" => in = {}
  <2>1. Cached' \subseteq Cached \cup in
    BY EntriesStep
  <2>2. CASE Refilled(Ans) = {}
    <3>1. in = {}
      BY <2>2
    <3> QED
      BY <2>1, <3>1 DEF Misses!AtMostOne
  <2>3. CASE Refilled(Ans) # {}
    <3>1. /\ st = "wfc" /\ Ans.vpn \in Vpn /\ (Ans.vpn = que \/ Ans.vpn \in walks)
          /\ Refilled(Ans) = {victim} /\ Ans.kind = "page" /\ Ans # NoAnswer
      BY <2>3, RefillIsNew DEF Refilled, NoAnswer
    <3>2. in = {Ans.vpn} /\ MissOf[Ans.vpn] = "asked"
      BY <3>1 DEF MissOf, Pending, StatusIn
    <3> QED
      BY <2>1, <3>1, <3>2 DEF Misses!AtMostOne
  <2> QED
    BY <2>2, <2>3
<1> HIDE DEF in
<1>5. \E asked \in Misses!AtMostOne(Vpn), flush \in BOOLEAN : Moves(asked, flush)
  <2>1. /\ {} \in Misses!AtMostOne(Vpn)
        /\ \A v \in Vpn : {v} \in Misses!AtMostOne(Vpn)
    BY DEF Misses!AtMostOne
  <2>2. CASE st \in {"idle", "pgflt"}
    <3>1. Ans = NoAnswer
      BY <2>2, Nothing DEF IInv
    <3>2. /\ st = "idle" => st' \in {"idle", "wfg"}
          /\ st = "pgflt" => st' = "idle"
      BY <1>1, <2>2, <3>1 DEF NextSt
    <3>3. \A v \in Vpn : MissOf[v] \in {"none", "faulted"} /\ (st = "idle" => MissOf[v] = "none")
      BY <2>2 DEF MissOf, Pending, StatusIn
    <3>4. \A v \in Vpn : MissOf'[v] \in {"none", "missed"} /\ (st' = "idle" => MissOf'[v] = "none")
      BY <2>2, <3>2 DEF MissOf, Pending, StatusIn
    <3>5. Moves({}, FALSE)
      BY <2>2, <3>2, <3>3, <3>4 DEF Misses!Goes
    <3> QED
      BY <2>1, <3>5
  <2>3. CASE st = "wfg"
    <3>1. /\ que = NoVpn /\ walks = {} /\ credit /\ fin = NoAnswer /\ ptw = NoAnswer
          /\ Ans = NoAnswer
      BY <2>3, Nothing DEF IInv
    <3>2. req \in Vpn /\ (fetch \in Vpn => req = fetch)
      BY <1>2, <2>3 DEF Requested, Request
    <3>3. que' = req /\ walks' = {}
      BY <1>1, <3>1, <3>2 DEF QueEdge, L2Edge, Dealloc, NoAnswer
    <3>4. st' = IF abort THEN "abt" ELSE "wfc"
      BY <1>1, <2>3, <3>1 DEF NextSt
    <3>5. Pending' = {req}
      BY <3>2, <3>3, <3>4 DEF Pending
    <3>6. \A v \in Vpn : MissOf'[v] = IF v = req THEN (IF abort THEN "dropped" ELSE "asked") ELSE "none"
      BY <3>4, <3>5 DEF MissOf, StatusIn
    <3>7. CASE abort
      <4>1. \A v \in Vpn : MissOf[v] = "none"
        BY <2>3, <3>7 DEF MissOf, Pending
      <4>2. Moves({req}, TRUE)
        BY <3>6, <3>7, <4>1 DEF Misses!GivenUp
      <4> QED
        BY <2>1, <3>2, <4>2
    <3>8. CASE ~abort
      <4>1. fetch \in Vpn /\ req = fetch
        BY <2>3, <3>2, <3>8 DEF IInv, Absent
      <4>2. \A v \in Vpn : MissOf[v] = IF v = req THEN "missed" ELSE "none"
        BY <2>3, <3>8, <4>1 DEF MissOf, Pending, StatusIn
      <4>3. Moves({req}, FALSE)
        BY <3>6, <3>8, <4>2 DEF Misses!Goes
      <4> QED
        BY <2>1, <3>2, <4>3
    <3> QED
      BY <3>7, <3>8
  <2>4. CASE st \in {"wfc", "abt"}
    <3>1. PICK v \in Vpn : Pending = {v} /\ (v = que \/ v \in walks)
      BY <2>4, PendingIsOne
    <3>2. \A w \in Vpn : MissOf[w] = IF w = v THEN (IF st = "wfc" THEN "asked" ELSE "dropped")
                                    ELSE "none"
      BY <2>4, <3>1 DEF MissOf, StatusIn
    <3>3. CASE Ans = NoAnswer
      <4>1. Pending' = {v} /\ st' = IF abort THEN "abt" ELSE st
        BY <2>4, <3>1, <3>3, RequestStays
      <4>2. \A w \in Vpn : MissOf'[w] = IF w = v THEN (IF st' = "wfc" THEN "asked" ELSE "dropped")
                                       ELSE "none"
        BY <2>4, <4>1 DEF MissOf, StatusIn
      <4>3. in = {}
        BY <1>4, <3>3
      <4>4. Moves({}, abort)
        <5>1. CASE abort
          BY <2>4, <3>2, <4>1, <4>2, <5>1 DEF Misses!GivenUp
        <5>2. CASE ~abort
          BY <2>4, <3>2, <4>1, <4>2, <4>3, <5>2 DEF Misses!Goes
        <5> QED
          BY <5>1, <5>2
      <4>5. abort \in BOOLEAN
        BY DEF IInv, TypeOK
      <4> QED
        BY <2>1, <4>4, <4>5
    <3>4. CASE Ans # NoAnswer /\ ~(st = "wfc" /\ ~abort /\ Ans.kind = "flt")
      <4>1. st' = "idle"
        BY <1>1, <2>4, <3>4 DEF NextSt
      <4>2. \A w \in Vpn : MissOf'[w] = "none"
        BY <4>1 DEF MissOf, Pending
      <4>3. Moves({}, TRUE)
        BY <2>4, <3>2, <4>2 DEF Misses!GivenUp
      <4> QED
        BY <2>1, <4>3
    <3>5. CASE Ans # NoAnswer /\ st = "wfc" /\ ~abort /\ Ans.kind = "flt"
      <4>1. st' = "pgflt"
        BY <1>1, <3>5 DEF NextSt, NoAnswer
      <4>2. fetch \in Vpn /\ fetch = v
        <5>1. fetch \in Vpn /\ (fetch = que \/ fetch \in walks)
          BY <3>5 DEF IInv, Absent
        <5> QED
          BY <3>1, <3>5, <5>1 DEF Pending
      <4>3. ~Answered
        <5>1. fetch \notin Cached
          BY <3>5, <4>2, <3>1 DEF IInv, Absent
        <5> QED
          BY <3>5, <5>1 DEF Answered, PaVld, Hit, Cached
      <4>4. ~abort' => fetch' = v
        BY <1>1, <3>5, <4>2, <4>3 DEF IfuEdge
      <4>5. \A w \in Vpn : MissOf'[w] \in IF w = v THEN {"faulted", "none"} ELSE {"none"}
        BY <4>1, <4>4 DEF MissOf, Pending, StatusIn
      <4>6. in = {}
        BY <1>4, <3>5
      <4>7. Moves({}, FALSE)
        BY <3>2, <3>5, <4>5, <4>6 DEF Misses!Goes
      <4> QED
        BY <2>1, <4>7
    <3> QED
      BY <3>3, <3>4, <3>5
  <2> QED
    BY <1>2, <2>2, <2>3, <2>4
<1>6. PICK asked \in Misses!AtMostOne(Vpn), flush \in BOOLEAN : Moves(asked, flush)
  BY <1>5
<1>7. Misses!Cardinality({v \in Vpn : MissOf'[v] # "none"}) <= 1
  BY <1>3 DEF Cardinality, Misses!Cardinality
<1> QED
  BY <1>3, <1>4, <1>6, <1>7 DEF Misses!Next

\* The TLB implements PageMisses: a page comes into it only as the answer to its own
\* miss, asked for while the fetch was held, and exchanges bring none (mmu_l1itlb.sv,
\* ref_cur_st, iutlb_refill_vld and the exchange of slots).
THEOREM Refinement == Spec => ImplementsPageMisses
<1>1. Init => Misses!Init
  <2> SUFFICES ASSUME Init PROVE Misses!Init
    OBVIOUS
  <2>1. Cached = {} /\ Pending = {}
    BY DEF Init, L1ItlbInit, Cached, Pending
  <2> QED
    BY <2>1 DEF Misses!Init, MissOf
<1>2. IInv /\ IInv' /\ [Next]_vars => [Misses!Next]_(Misses!vars)
  <2> SUFFICES ASSUME IInv, IInv', [Next]_vars PROVE [Misses!Next]_(Misses!vars)
    OBVIOUS
  <2>1. CASE Next
    <3>1. PICK miss \in BOOLEAN, go \in BOOLEAN, req \in Requested : Cycle(miss, req, go)
      BY <2>1 DEF Next
    <3> QED
      BY <3>1, MissStep
  <2>2. CASE UNCHANGED vars
    BY <2>2 DEF vars, itlbVars, l2Vars, Misses!vars, Cached, MissOf, Pending, StatusIn
  <2> QED
    BY <2>1, <2>2
<1> QED
  BY <1>1, <1>2, Invariance, PTL DEF Spec, ImplementsPageMisses, Misses!Spec
=============================================================================
