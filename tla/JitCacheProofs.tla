--------------------------- MODULE JitCacheProofs ---------------------------
(***************************************************************************)
(* Theorems about JitCache for every number of functions, every body,      *)
(* every budget and every limit.  Lemmas about the operators come first,   *)
(* then type correctness, then the inductive invariants, each relative to  *)
(* the ones before it, and last the properties of the specification.       *)
(***************************************************************************)
EXTENDS JitCache, DataLemmas

-----------------------------------------------------------------------------
(* The opcodes of a function, in the order they were recorded, are a       *)
(* sequence as long as the record.                                         *)
LEMMA OpcodesSeq ==
  ASSUME TypeOK, NEW f \in Fns
  PROVE  /\ Opcodes(f) \in Programs
         /\ Len(Opcodes(f)) = Len(recorded[f])
         /\ \A k \in 1 .. Len(recorded[f]) :
              Opcodes(f)[k] = Body[f][recorded[f][k]]
<1>1. Len(recorded[f]) \in Nat /\ Body[f] \in Seq(Ops)
  BY BodyAssumption DEF TypeOK
<1>2. \A k \in 1 .. Len(recorded[f]) : Body[f][recorded[f][k]] \in Ops
  BY <1>1, ElementOfSeq DEF TypeOK, Instrs
<1>3. QED
  BY <1>1, <1>2 DEF Opcodes, Programs

(* The chunk that is prepared is a prefix of the opcodes, and it is empty  *)
(* only when nothing is recorded.                                          *)
LEMMA ChunkPrefix ==
  ASSUME TypeOK, NEW f \in Fns
  PROVE  /\ Chunk(f) \in Nat
         /\ Chunk(f) = 0 <=> recorded[f] = <<>>
         /\ ChunkProgram(f) \in Programs
         /\ Len(ChunkProgram(f)) = Chunk(f)
         /\ IsPrefix(ChunkProgram(f), Opcodes(f))
<1>1. /\ Chunk(f) \in 0 .. Len(recorded[f])
      /\ Chunk(f) = 0 <=> recorded[f] = <<>>
  <2>1. recorded[f] \in Seq(Nat)
    BY DEF TypeOK
  <2>2. QED
    BY <2>1, LimitAssumption DEF Chunk
<1>a. /\ Opcodes(f) \in Seq(Ops)
      /\ Len(Opcodes(f)) = Len(recorded[f])
      /\ Len(recorded[f]) \in Nat
  BY OpcodesSeq, LenProperties DEF Programs
<1>2. \A k \in 1 .. Chunk(f) : Opcodes(f)[k] \in Ops
  <2>1. Chunk(f) <= Len(Opcodes(f))
    BY <1>1, <1>a
  <2>2. QED
    BY <1>1, <1>a, <2>1, ElementOfSeq
<1>3. /\ ChunkProgram(f) \in Programs
      /\ Len(ChunkProgram(f)) = Chunk(f)
  BY <1>1, <1>2 DEF ChunkProgram, Programs
<1>4. IsPrefix(ChunkProgram(f), Opcodes(f))
  BY <1>1, <1>a, <1>3 DEF IsPrefix, ChunkProgram
<1>5. QED
  BY <1>1, <1>3, <1>4

-----------------------------------------------------------------------------
(* Type correctness.  The bytes of a program, and those an entry gives     *)
(* back, are numbers.                                                      *)
LEMMA BytesNat ==
  ASSUME TypeOK
  PROVE  /\ \A p \in Programs : Len(p) \in Nat /\ Len(p) * OpBytes \in Nat
         /\ \A f \in Fns : Released(f) \in Nat
<1>1. ASSUME NEW p \in Programs PROVE Len(p) \in Nat /\ Len(p) * OpBytes \in Nat
  <2>1. Len(p) \in Nat
    BY LenProperties DEF Programs
  <2>2. QED
    BY <2>1, LimitAssumption
<1>2. \A f \in Fns : Released(f) \in Nat
  BY DEF TypeOK, Released
<1>3. QED
  BY <1>1, <1>2

(* Installing a program keeps the types of what it touches.                *)
LEMMA InstallType ==
  ASSUME TypeOK, NEW f \in Fns, NEW p \in Programs, Install(f, p)
  PROVE  /\ program' \in [Fns -> Programs]
         /\ ready' \in [Fns -> BOOLEAN]
         /\ spilled' \in [Fns -> BOOLEAN]
         /\ programBytes' \in [Fns -> Nat]
         /\ cacheBytes' \in Nat
<1>1. Len(p) \in Nat /\ Len(p) * OpBytes \in Nat /\ Released(f) \in Nat
  BY BytesNat
<1>2. (Len(p) > 0) \in BOOLEAN
  OBVIOUS
<1>3. QED
  BY <1>1, <1>2 DEF TypeOK, Install

(* The initial states are typed.                                           *)
LEMMA InitType == Init => TypeOK
<1> SUFFICES ASSUME Init PROVE TypeOK
  OBVIOUS
<1>1. /\ <<>> \in Seq(Nat) /\ <<>> \in Programs
      /\ 1 .. Len(<<>>) = {} /\ 0 \in Fns /\ 0 \in Nat /\ 0 \in 0 .. N
  BY NAssumption DEF Programs, Fns
<1>2. recorded \in [Fns -> Seq(Nat)] /\ \A g \in Fns : recorded[g] = <<>>
  BY <1>1 DEF Init, Empty
<1>3. /\ program \in [Fns -> Programs]
      /\ ready \in [Fns -> BOOLEAN]
      /\ spilled \in [Fns -> BOOLEAN]
      /\ programBytes \in [Fns -> Nat]
      /\ cacheBytes \in Nat
      /\ cursor \in Fns
      /\ prescanned \in BOOLEAN
  BY <1>1 DEF Init, Empty
<1>4. /\ microcode \in BOOLEAN
      /\ budget \in CacheBudgets \cup {0}
      /\ hooks \in [spill : BOOLEAN, load : BOOLEAN]
      /\ store \in [Fns -> Programs]
      /\ pc \in PcValues
      /\ prepared \in Programs
  BY <1>1 DEF Init, PcValues
<1>5. cur \in Currents
  BY <1>1 DEF Init, NoInstr, Currents
<1>6. scan \in Scans
  BY <1>1 DEF Init, NoScan, Scans
<1>7. rsv \in Reservations
  BY <1>1 DEF Init, NoRsv, PcValues, Reservations
<1>8. QED
  BY <1>1, <1>2, <1>3, <1>4, <1>5, <1>6, <1>7 DEF TypeOK

(* The ranges of the fields the actions use. *)
LEMMA FieldTypes ==
  ASSUME TypeOK
  PROVE  /\ cur.fn \in Fns /\ cur.at \in Nat
         /\ scan.fn \in 0 .. N /\ scan.at \in Nat /\ scan.compiled \in Nat
         /\ scan.back \in PcValues
         /\ rsv.fn \in Fns /\ rsv.need \in Nat /\ rsv.attempts \in 0 .. N
         /\ rsv.incoming \in Programs
         /\ rsv.ok \in PcValues /\ rsv.fail \in PcValues
BY DEF TypeOK, Currents, Scans, Reservations, PcValues

(* Every step keeps the types, an action at a time.                        *)
LEMMA StepType == TypeOK /\ [Next]_vars => TypeOK'
(* A reservation that starts is one of the known reservations.             *)
<1>reserve. ASSUME NEW f \in Fns, NEW p \in Programs, NEW need \in Nat,
                   NEW kind \in {"prepare", "load"}, NEW ok \in PcValues,
                   NEW fail \in PcValues, Reserve(f, p, need, kind, ok, fail)
            PROVE  /\ pc' \in PcValues
                   /\ rsv' \in Reservations
  BY <1>reserve, NAssumption DEF Reserve, PcValues, Reservations
(* Recording keeps the type of the record.                                 *)
<1>record. ASSUME TypeOK, NEW f \in Fns, NEW i \in Instrs(f), Record(f, i)
           PROVE  /\ recorded' \in [Fns -> Seq(Nat)]
                  /\ \A g \in Fns : \A k \in 1 .. Len(recorded'[g]) :
                       recorded'[g][k] \in Instrs(g)
  <2> USE <1>record
  <2>1. recorded \in [Fns -> Seq(Nat)] /\ i \in Nat
    BY DEF TypeOK, Instrs
  <2>2. recorded' \in [Fns -> Seq(Nat)]
    BY <2>1 DEF Record
  <2>3. ASSUME NEW g \in Fns, NEW k \in 1 .. Len(recorded'[g])
        PROVE  recorded'[g][k] \in Instrs(g)
    <3>1. CASE recorded'[g] = recorded[g]
      BY <3>1 DEF TypeOK
    <3>2. CASE g = f /\ recorded'[g] = Append(recorded[g], i)
      <4>1. recorded[g] \in Seq(Nat)
        BY <2>1
      <4>2. \/ k = Len(recorded[g]) + 1 /\ recorded'[g][k] = i
            \/ k \in 1 .. Len(recorded[g]) /\ recorded'[g][k] = recorded[g][k]
        BY <2>1, <3>2, <4>1
      <4>3. QED
        BY <3>2, <4>2 DEF TypeOK
    <3>3. QED
      BY <2>1, <3>1, <3>2 DEF Record
  <2>4. QED
    BY <2>2, <2>3
(* Evicting a program keeps the types of what it touches.                  *)
<1>evict. ASSUME TypeOK, NEW f \in Fns, Evict(f)
          PROVE  /\ program' \in [Fns -> Programs]
                 /\ ready' \in [Fns -> BOOLEAN]
                 /\ spilled' \in [Fns -> BOOLEAN]
                 /\ programBytes' \in [Fns -> Nat]
                 /\ cacheBytes' \in Nat
                 /\ store' \in [Fns -> Programs]
  <2> USE <1>evict
  <2>1. Released(f) \in Nat /\ <<>> \in Programs
    BY BytesNat DEF Programs
  <2>2. PICK kept \in BOOLEAN :
          /\ store' = IF kept THEN [store EXCEPT ![f] = program[f]] ELSE store
          /\ spilled' = [spilled EXCEPT ![f] = kept]
    BY DEF Evict, TypeOK
  <2>3. /\ program' = [program EXCEPT ![f] = <<>>]
        /\ programBytes' = [programBytes EXCEPT ![f] = 0]
        /\ cacheBytes' = Released(f)
        /\ ready' = [ready EXCEPT ![f] = FALSE]
    BY DEF Evict
  <2>4. /\ store' \in [Fns -> Programs]
        /\ spilled' \in [Fns -> BOOLEAN]
    BY <2>2 DEF TypeOK
  <2>5. QED
    BY <2>1, <2>3, <2>4 DEF TypeOK
(* Clearing the cache leaves every variable of the entries typed.          *)
<1>clear. ASSUME ClearCache
          PROVE  /\ recorded' \in [Fns -> Seq(Nat)]
                 /\ \A g \in Fns : \A k \in 1 .. Len(recorded'[g]) :
                      recorded'[g][k] \in Instrs(g)
                 /\ program' \in [Fns -> Programs]
                 /\ ready' \in [Fns -> BOOLEAN]
                 /\ spilled' \in [Fns -> BOOLEAN]
                 /\ programBytes' \in [Fns -> Nat]
                 /\ cacheBytes' \in Nat
                 /\ cursor' \in Fns
                 /\ prescanned' \in BOOLEAN
  <2> USE <1>clear
  <2>1. /\ <<>> \in Seq(Nat) /\ <<>> \in Programs
        /\ 1 .. Len(<<>>) = {} /\ 0 \in Fns /\ 0 \in Nat
    BY NAssumption DEF Programs, Fns
  <2>2. recorded' \in [Fns -> Seq(Nat)] /\ \A g \in Fns : recorded'[g] = <<>>
    BY <2>1 DEF ClearCache
  <2>3. QED
    BY <2>1, <2>2 DEF ClearCache
(* A load either starts a typed reservation or goes on at its failure.     *)
<1>load. ASSUME TypeOK, NEW f \in Fns, NEW ok \in PcValues, NEW fail \in PcValues,
                Load(f, ok, fail)
         PROVE  /\ pc' \in PcValues
                /\ rsv' \in Reservations
  <2> USE <1>load
  <2>1. store[f] \in Programs /\ Len(store[f]) * OpBytes \in Nat
    BY BytesNat DEF TypeOK
  <2>2. CASE Reserve(f, store[f], Len(store[f]) * OpBytes, "load", ok, fail)
    BY <2>1, <2>2, <1>reserve
  <2>3. CASE pc' = fail /\ UNCHANGED rsv
    BY <2>3 DEF TypeOK
  <2>4. QED
    BY <2>2, <2>3 DEF Load
<1> SUFFICES ASSUME TypeOK, [Next]_vars PROVE TypeOK'
  OBVIOUS
<1> USE DEF entryVars, cacheVars, hostVars, loopVars
<1>1. CASE Attach
  <2>1. NoScan \in Scans
    BY NAssumption DEF NoScan, Scans
  <2>2. store' \in [Fns -> Programs]
    BY <1>1 DEF Attach, TypeOK, Programs
  <2>3. ClearCache
    BY <1>1 DEF Attach
  <2>4. pc' \in PcValues
    BY <1>1 DEF Attach, PcValues
  <2>5. QED
    BY <1>1, <2>1, <2>2, <2>3, <2>4, <1>clear DEF Attach, Decide, TypeOK
<1>2. CASE StartJob
  <2>1. scan' \in Scans
    <3>1. scan' = scan \/ scan' = [NoScan EXCEPT !.back = "fetch"]
      BY <1>2 DEF StartJob
    <3>2. [NoScan EXCEPT !.back = "fetch"] \in Scans
      BY NAssumption DEF NoScan, Scans
    <3>3. QED
      BY <3>1, <3>2 DEF TypeOK
  <2>2. pc' \in PcValues
    BY <1>2 DEF StartJob, PcValues
  <2>3. QED
    BY <1>2, <2>1, <2>2 DEF StartJob, Decide, TypeOK
<1>3. CASE SetSpillHooks
  BY <1>3 DEF SetSpillHooks, TypeOK
<1>4. ASSUME NEW f \in Fns, SpillProgram(f)
      PROVE  TypeOK'
  BY <1>4, <1>evict DEF SpillProgram, TypeOK
<1>5. ASSUME NEW f \in Fns, LoadProgram(f)
      PROVE  TypeOK'
  <2>1. pc \in PcValues
    BY DEF TypeOK
  <2>2. QED
    BY <1>5, <2>1, <1>load DEF LoadProgram, TypeOK
<1>6. CASE PrescanInstr
  <2>1. scan.fn \in Fns /\ scan.at \in Nat
    BY <1>6, NAssumption, FieldTypes DEF PrescanInstr, Fns
  <2>2. scan' \in Scans
    <3>1. scan \in Scans /\ scan' = [scan EXCEPT !.at = @ + 1]
      BY <1>6 DEF PrescanInstr, TypeOK
    <3>2. QED
      BY <3>1 DEF Scans
  <2>3. QED
    BY <1>6, <2>1, <2>2, <1>record DEF PrescanInstr, TypeOK
<1>7. CASE PrescanFails
  <2>1. NoScan \in Scans
    BY NAssumption DEF NoScan, Scans
  <2>2. /\ scan.fn \in Fns
        /\ scan.at \in Instrs(scan.fn)
        /\ scan' = NoScan
        /\ UNCHANGED <<microcode, budget, hooks, store, cur, prepared, rsv>>
    BY <1>7, BodyAssumption DEF PrescanFails
  <2>3. CASE ClearCache /\ pc' = "detached"
    <3>1. pc' \in PcValues
      BY <2>3 DEF PcValues
    <3>2. QED
      BY <2>1, <2>2, <2>3, <3>1, <1>clear DEF TypeOK
  <2>4. CASE /\ Record(scan.fn, scan.at) /\ pc' \in {"host", "fetch"}
             /\ UNCHANGED <<program, ready, spilled, programBytes, cacheVars>>
    <3>1. pc' \in PcValues
      BY <2>4 DEF PcValues
    <3>2. QED
      BY <2>1, <2>2, <2>4, <3>1, <1>record DEF TypeOK
  <2>5. QED
    BY <1>7, <2>3, <2>4 DEF PrescanFails
<1>8. CASE PrescanNext
  <2>1. scan.fn \in Fns
    BY <1>8, NAssumption, FieldTypes DEF PrescanNext, Fns
  <2>2. scan' \in Scans
    <3>1. scan \in Scans /\ scan.fn + 1 \in 0 .. N
      BY <2>1, NAssumption DEF TypeOK, Fns
    <3>2. \/ scan' = [scan EXCEPT !.fn = @ + 1, !.at = 1, !.compiled = @ + 1]
          \/ scan' = [scan EXCEPT !.fn = @ + 1, !.at = 1]
      BY <1>8 DEF PrescanNext
    <3>3. CASE scan' = [scan EXCEPT !.fn = @ + 1, !.at = 1, !.compiled = @ + 1]
      <4>1. scan.compiled + 1 \in Nat
        BY FieldTypes
      <4>2. QED
        BY <3>1, <3>3, <4>1 DEF Scans
    <3>4. CASE scan' = [scan EXCEPT !.fn = @ + 1, !.at = 1]
      BY <3>1, <3>4 DEF Scans
    <3>5. QED
      BY <3>2, <3>3, <3>4
  <2>3. CASE Install(scan.fn, ChunkProgram(scan.fn))
    BY <1>8, <2>1, <2>2, <2>3, InstallType, ChunkPrefix DEF PrescanNext, TypeOK
  <2>4. CASE UNCHANGED <<program, ready, spilled, programBytes, cacheBytes>>
    BY <1>8, <2>2, <2>4 DEF PrescanNext, TypeOK
  <2>5. QED
    BY <1>8, <2>3, <2>4 DEF PrescanNext
<1>9. CASE PrescanDone
  <2>1. NoScan \in Scans
    BY NAssumption DEF NoScan, Scans
  <2>2. QED
    BY <1>9, <2>1, FieldTypes DEF PrescanDone, TypeOK
<1>10. CASE MaybeLoad
  <2>1. cur.fn \in Fns /\ "lookup" \in PcValues /\ "prepare" \in PcValues
    BY FieldTypes DEF TypeOK, PcValues
  <2>2. QED
    BY <1>10, <2>1, <1>load DEF MaybeLoad, TypeOK
<1>11. CASE MaybeSkip
  BY <1>11 DEF MaybeSkip, TypeOK, PcValues
<1>12. CASE Prepare
  <2>1. /\ cur.fn \in Fns /\ "lookup" \in PcValues /\ <<>> \in Programs
        /\ Chunk(cur.fn) * OpBytes \in Nat
    <3>1. cur.fn \in Fns
      BY FieldTypes DEF TypeOK
    <3>2. Chunk(cur.fn) \in Nat
      BY <3>1, ChunkPrefix
    <3>3. QED
      BY <3>1, <3>2, LimitAssumption DEF PcValues, Programs
  <2>2. CASE pc' = "lookup" /\ UNCHANGED rsv
    BY <1>12, <2>1, <2>2 DEF Prepare, TypeOK
  <2>3. CASE Reserve(cur.fn, <<>>, Chunk(cur.fn) * OpBytes, "prepare",
                     "lookup", "lookup")
    BY <1>12, <2>1, <2>3, <1>reserve DEF Prepare, TypeOK
  <2>4. QED
    BY <1>12, <2>2, <2>3 DEF Prepare
<1>13. CASE EvictStep
  <2>1. cursor \in Fns /\ cursor' \in Fns
    <3>1. cursor \in Fns /\ cursor' = (cursor + 1) % N
      BY <1>13 DEF EvictStep, TypeOK
    <3>2. QED
      BY <3>1, NAssumption DEF Fns
  <2>2. rsv' \in Reservations
    <3>1. /\ rsv \in Reservations
          /\ rsv' = [rsv EXCEPT !.attempts = @ - 1]
          /\ rsv.attempts \in 0 .. N /\ rsv.attempts > 0
      BY <1>13, FieldTypes DEF EvictStep, TypeOK
    <3>2. rsv.attempts - 1 \in 0 .. N
      BY <3>1, NAssumption
    <3>3. QED
      BY <3>1, <3>2 DEF Reservations
  <2>3. CASE Evict(cursor)
    BY <1>13, <2>1, <2>2, <2>3, <1>evict DEF EvictStep, TypeOK
  <2>4. CASE UNCHANGED <<program, ready, spilled, programBytes, cacheBytes, store>>
    BY <1>13, <2>1, <2>2, <2>4 DEF EvictStep, TypeOK
  <2>5. QED
    BY <1>13, <2>3, <2>4 DEF EvictStep
<1>14. NoRsv \in Reservations
  BY NAssumption DEF NoRsv, PcValues, Programs, Fns, Reservations
<1>15. CASE ReserveFails
  BY <1>14, <1>15, FieldTypes DEF ReserveFails, TypeOK
<1>16. CASE FinishPrepare
  <2>1. rsv.fn \in Fns
    BY FieldTypes DEF TypeOK
  <2>2. CASE Install(rsv.fn, ChunkProgram(rsv.fn))
    BY <1>14, <1>16, <2>1, <2>2, FieldTypes, InstallType, ChunkPrefix
    DEF FinishPrepare, TypeOK
  <2>3. CASE UNCHANGED <<program, ready, spilled, programBytes, cacheBytes>>
    BY <1>14, <1>16, <2>3, FieldTypes DEF FinishPrepare, TypeOK
  <2>4. QED
    BY <1>16, <2>2, <2>3 DEF FinishPrepare
<1>17. CASE FinishLoad
  <2>1. rsv.fn \in Fns /\ rsv.incoming \in Programs
    BY FieldTypes DEF TypeOK
  <2>2. QED
    BY <1>14, <1>17, <2>1, FieldTypes, InstallType DEF FinishLoad, TypeOK
<1>a. NoInstr \in Currents
  BY NAssumption DEF NoInstr, Currents, Fns
<1>18. CASE ExecuteControl
  <2>1. cur' \in Currents
    <3>1. cur \in Currents /\ (cur' = NoInstr \/ cur' = [cur EXCEPT !.hot = TRUE])
      BY <1>18 DEF ExecuteControl, TypeOK
    <3>2. QED
      BY <1>a, <3>1 DEF Currents
  <2>2. /\ microcode' \in BOOLEAN /\ budget' = budget
        /\ pc' \in PcValues
    BY <1>18 DEF ExecuteControl, Rise, TypeOK, PcValues
  <2>3. QED
    BY <1>18, <2>1, <2>2 DEF ExecuteControl, TypeOK
<1>19. CASE Unimplemented
  BY <1>19, <1>a DEF Unimplemented, TypeOK, PcValues
<1>20. CASE LookupLoad
  <2>1. cur.fn \in Fns /\ "lookup" \in PcValues /\ "dispatch" \in PcValues
    BY FieldTypes DEF TypeOK, PcValues
  <2>2. QED
    BY <1>20, <2>1, <1>load DEF LookupLoad, TypeOK
<1>21. CASE Lookup
  <2>1. PreparedOp(cur.fn, cur.at) \in Programs
    <3>1. cur.fn \in Fns /\ program[cur.fn] \in Seq(Ops)
      BY FieldTypes DEF TypeOK, Programs
    <3>2. CASE /\ Recorded(cur.fn, cur.at)
               /\ IndexOf(cur.fn, cur.at) <= Len(program[cur.fn])
      <4>1. IndexOf(cur.fn, cur.at) \in 1 .. Len(recorded[cur.fn])
        BY <3>2 DEF IndexOf, Recorded
      <4>2. IndexOf(cur.fn, cur.at) \in 1 .. Len(program[cur.fn])
        BY <3>1, <3>2, <4>1
      <4>3. QED
        BY <3>1, <4>2, ElementOfSeq DEF PreparedOp, Programs
    <3>3. CASE ~ (/\ Recorded(cur.fn, cur.at)
                  /\ IndexOf(cur.fn, cur.at) <= Len(program[cur.fn]))
      BY <3>3 DEF PreparedOp, Programs
    <3>4. QED
      BY <3>2, <3>3
  <2>2. QED
    BY <1>21, <2>1 DEF Lookup, TypeOK, PcValues
<1>22. CASE Dispatch
  <2>1. prepared' \in Programs /\ pc' \in PcValues
    BY <1>22 DEF Dispatch, PcValues, Programs
  <2>2. QED
    BY <1>22, <1>a, <2>1 DEF Dispatch, TypeOK
<1>23. CASE EndJob
  BY <1>23 DEF EndJob, TypeOK, PcValues
<1>24. ASSUME NEW f \in Fns, NEW i \in Instrs(f), Fetch(f, i)
       PROVE  TypeOK'
  <2>1. [fn |-> f, at |-> i, hot |-> FALSE] \in Currents
    BY DEF Currents, Instrs
  <2>2. microcode' \in BOOLEAN /\ budget' = budget /\ pc' \in PcValues
    BY <1>24 DEF Fetch, Rise, TypeOK, PcValues
  <2>3. QED
    BY <1>24, <2>1, <2>2, <1>record DEF Fetch, TypeOK
<1>25. CASE UNCHANGED vars
  BY <1>25 DEF vars, TypeOK
<1>26. QED
  BY <1>1, <1>2, <1>3, <1>4, <1>5, <1>6, <1>7, <1>8, <1>9, <1>10, <1>11, <1>12,
     <1>13, <1>15, <1>16, <1>17, <1>18, <1>19, <1>20, <1>21, <1>22, <1>23, <1>24,
     <1>25 DEF Next, Host, Loop

(* Every variable keeps to its range: in particular the eviction cursor    *)
(* stays in the table and the byte total never goes below zero.            *)
THEOREM TypeCorrect == Spec => []TypeOK
<1>1. QED
  BY InitType, StepType, PTL DEF Spec

-----------------------------------------------------------------------------
(* What the position of the thread says about the reservation, about the   *)
(* instruction being executed and about the record behind them.            *)
InLoop == {"maybe", "prepare", "lookup"}

Executing == \/ pc \in InLoop
             \/ pc = "reserve" /\ (rsv.ok \in InLoop \/ rsv.fail \in InLoop)

Reserving ==
  /\ {rsv.ok, rsv.fail} \cap {"reserve", "detached"} = {}
  /\ recorded[rsv.fn] # <<>>
  /\ \/ /\ rsv.kind = "prepare"
        /\ rsv.need = Chunk(rsv.fn) * OpBytes
     \/ /\ rsv.kind = "load"
        /\ rsv.incoming # <<>>
        /\ rsv.need = Len(rsv.incoming) * OpBytes

ThreadState ==
  /\ Executing => recorded[cur.fn] # <<>>
  /\ pc # "dispatch" => prepared = <<>>
  /\ pc = "reserve" => Reserving

(* So it holds in every reachable state.                                   *)
LEMMA ThreadCorrect == Spec => []ThreadState
(* Every step keeps what is known of the thread's position.                *)
<1>step. TypeOK /\ TypeOK' /\ ThreadState /\ [Next]_vars => ThreadState'
  (* A load asks for what the store holds, for a function with a record.     *)
  <2>load. ASSUME TypeOK, NEW f \in Fns, NEW ok \in PcValues \ {"reserve", "detached"},
                  NEW fail \in PcValues \ {"reserve", "detached"}, Load(f, ok, fail),
                  UNCHANGED recorded
           PROVE  \/ pc' = fail
                  \/ /\ pc' = "reserve" /\ Reserving'
                     /\ rsv'.ok = ok /\ rsv'.fail = fail
    <3> USE <2>load
    <3>1. recorded[f] # <<>>
      BY DEF Load, LoadPossible
    <3>2. CASE store[f] # <<>> /\ Reserve(f, store[f], Len(store[f]) * OpBytes,
                                          "load", ok, fail)
      BY <3>1, <3>2 DEF Reserve, Reserving
    <3>3. QED
      BY <3>2 DEF Load
  <2> SUFFICES ASSUME TypeOK, TypeOK', ThreadState, [Next]_vars PROVE ThreadState'
    OBVIOUS
  <2> USE DEF entryVars, cacheVars, hostVars, loopVars, InLoop
  <2>1. CASE Attach
    BY <2>1 DEF Attach, ThreadState, Executing
  <2>2. CASE StartJob
    BY <2>2 DEF StartJob, HostTurn, ThreadState, Executing
  <2>3. CASE SetSpillHooks
    BY <2>3 DEF SetSpillHooks, ThreadState, Executing, HostTurn
  <2>4. ASSUME NEW f \in Fns, SpillProgram(f)
        PROVE  ThreadState'
    BY <2>4 DEF SpillProgram, ThreadState, Executing, HostTurn
  <2>5. ASSUME NEW f \in Fns, LoadProgram(f)
        PROVE  ThreadState'
    <3>1. /\ pc \in {"host", "fetch"} /\ Load(f, pc, pc) /\ prepared' = <<>>
          /\ UNCHANGED recorded
      BY <2>5 DEF LoadProgram, HostTurn, ThreadState
    <3>2. \/ pc' = pc
          \/ pc' = "reserve" /\ Reserving' /\ rsv'.ok = pc /\ rsv'.fail = pc
      <4>1. pc \in PcValues \ {"reserve", "detached"}
        BY <3>1 DEF PcValues
      <4>2. QED
        BY <3>1, <4>1, <2>load
    <3>3. QED
      BY <3>1, <3>2 DEF ThreadState, Executing
  <2>6. CASE PrescanInstr
    BY <2>6 DEF PrescanInstr, ThreadState, Executing
  <2>7. CASE PrescanFails
    BY <2>7 DEF PrescanFails, ThreadState, Executing
  <2>8. CASE PrescanNext
    BY <2>8 DEF PrescanNext, ThreadState, Executing
  <2>9. CASE PrescanDone
    <3>1. pc' \in {"host", "fetch"}
      BY <2>9 DEF PrescanDone, TypeOK, Scans
    <3>2. QED
      BY <2>9, <3>1 DEF PrescanDone, ThreadState, Executing
  <2>10. CASE MaybeLoad
    <3>1. /\ recorded[cur.fn] # <<>> /\ prepared = <<>>
          /\ UNCHANGED <<recorded, cur, prepared>>
      BY <2>10 DEF MaybeLoad, ThreadState, Executing
    <3>2. \/ pc' = "prepare"
          \/ pc' = "reserve" /\ Reserving'
      BY <2>10, <3>1, FieldTypes, <2>load DEF MaybeLoad, PcValues
    <3>3. QED
      BY <3>1, <3>2 DEF ThreadState, Executing
  <2>11. CASE MaybeSkip
    BY <2>11 DEF MaybeSkip, ThreadState, Executing
  <2>12. CASE Prepare
    <3>1. /\ recorded[cur.fn] # <<>> /\ prepared = <<>>
          /\ UNCHANGED <<recorded, cur, prepared>>
      BY <2>12 DEF Prepare, ThreadState, Executing
    <3>2. CASE pc' = "lookup"
      BY <3>1, <3>2 DEF ThreadState, Executing
    <3>3. CASE Reserve(cur.fn, <<>>, Chunk(cur.fn) * OpBytes, "prepare",
                       "lookup", "lookup")
      <4>1. pc' = "reserve" /\ Reserving'
        BY <3>1, <3>3 DEF Reserve, Reserving, Chunk
      <4>2. QED
        BY <3>1, <4>1 DEF ThreadState, Executing
    <3>4. QED
      BY <2>12, <3>2, <3>3 DEF Prepare
  <2>13. CASE EvictStep
    <3>1. /\ pc = "reserve" /\ pc' = "reserve"
          /\ UNCHANGED <<recorded, cur, prepared>>
          /\ rsv' = [rsv EXCEPT !.attempts = @ - 1] /\ rsv \in Reservations
      BY <2>13 DEF EvictStep, TypeOK
    <3>2. /\ rsv'.fn = rsv.fn /\ rsv'.need = rsv.need /\ rsv'.kind = rsv.kind
          /\ rsv'.ok = rsv.ok /\ rsv'.fail = rsv.fail
          /\ rsv'.incoming = rsv.incoming
      BY <3>1 DEF Reservations
    <3>3. QED
      BY <3>1, <3>2 DEF ThreadState, Executing, Reserving, Chunk
  <2>14. CASE ReserveFails
    BY <2>14 DEF ReserveFails, ThreadState, Executing, Reserving
  <2>15. CASE FinishPrepare
    BY <2>15 DEF FinishPrepare, ThreadState, Executing, Reserving
  <2>16. CASE FinishLoad
    BY <2>16 DEF FinishLoad, ThreadState, Executing, Reserving
  <2>17. CASE ExecuteControl
    <3>1. cur'.fn = cur.fn \/ pc' = "fetch"
      BY <2>17 DEF ExecuteControl, TypeOK, Currents
    <3>2. QED
      BY <2>17, <3>1 DEF ExecuteControl, ThreadState, Executing
  <2>18. CASE Unimplemented
    BY <2>18 DEF Unimplemented, ThreadState, Executing
  <2>19. CASE LookupLoad
    <3>1. /\ recorded[cur.fn] # <<>> /\ prepared = <<>>
          /\ UNCHANGED <<recorded, cur, prepared>>
      BY <2>19 DEF LookupLoad, ThreadState, Executing
    <3>2. \/ pc' = "dispatch"
          \/ pc' = "reserve" /\ Reserving'
      BY <2>19, <3>1, FieldTypes, <2>load DEF LookupLoad, PcValues
    <3>3. QED
      BY <3>1, <3>2 DEF ThreadState, Executing
  <2>20. CASE Lookup
    BY <2>20 DEF Lookup, ThreadState, Executing
  <2>21. CASE Dispatch
    BY <2>21 DEF Dispatch, ThreadState, Executing
  <2>22. CASE EndJob
    BY <2>22 DEF EndJob, ThreadState, Executing
  <2>23. ASSUME NEW f \in Fns, NEW i \in Instrs(f), Fetch(f, i)
         PROVE  ThreadState'
    <3>1. recorded'[f] # <<>>
      <4>1. recorded \in [Fns -> Seq(Nat)] /\ i \in Nat /\ Record(f, i)
        BY <2>23 DEF Fetch, TypeOK, Instrs
      <4>2. CASE Recorded(f, i)
        BY <4>1, <4>2 DEF Record, Recorded
      <4>3. CASE ~ Recorded(f, i)
        <5>1. recorded'[f] = Append(recorded[f], i) /\ recorded[f] \in Seq(Nat)
          BY <4>1, <4>3 DEF Record
        <5>2. Len(recorded'[f]) = Len(recorded[f]) + 1 /\ Len(recorded[f]) \in Nat
          BY <4>1, <5>1
        <5>3. QED
          BY <5>2
      <4>4. QED
        BY <4>2, <4>3
    <3>2. QED
      BY <2>23, <3>1 DEF Fetch, ThreadState, Executing
  <2>24. CASE UNCHANGED vars
    BY <2>24 DEF vars, ThreadState, Executing, Reserving, Chunk
  <2>25. QED
    BY <2>1, <2>2, <2>3, <2>4, <2>5, <2>6, <2>7, <2>8, <2>9, <2>10, <2>11, <2>12,
       <2>13, <2>14, <2>15, <2>16, <2>17, <2>18, <2>19, <2>20, <2>21, <2>22, <2>23,
       <2>24 DEF Next, Host, Loop
<1>1. Init => ThreadState
  BY DEF Init, ThreadState, Executing, InLoop
<1>2. QED
  BY <1>1, <1>step, TypeCorrect, PTL DEF Spec

-----------------------------------------------------------------------------
(* The cache is cleared by an attach and by a prescan that fails it. *)
Clears ==
  /\ ClearCache
  /\ \/ Attach
     \/ pc = "prescan" /\ pc' = "detached" /\ UNCHANGED prepared

(* Which steps touch an entry at all, and how. *)
EntriesSame ==
  UNCHANGED <<program, ready, spilled, programBytes, cacheBytes, store>>

(* Every step leaves the entries alone, clears them, evicts one or         *)
(* installs one: the cases of every proof about programs.                  *)
LEMMA EntrySteps ==
  ASSUME TypeOK, [Next]_vars
  PROVE  \/ EntriesSame
         \/ Clears
         \/ \E f \in Fns : /\ ready[f] /\ program[f] # <<>> /\ Evict(f)
                           /\ UNCHANGED recorded
                           /\ pc = "reserve" => f # rsv.fn /\ pc' = pc
         \/ /\ PrescanNext /\ scan.fn \in Fns /\ Precompiles(scan.fn)
            /\ Install(scan.fn, ChunkProgram(scan.fn)) /\ UNCHANGED store
         \/ FinishPrepare /\ Install(rsv.fn, ChunkProgram(rsv.fn))
         \/ FinishLoad /\ Install(rsv.fn, rsv.incoming)
<1> USE DEF entryVars, cacheVars, hostVars, EntriesSame, Clears
<1>1. CASE Attach
  BY <1>1 DEF Attach
<1>2. ASSUME NEW f \in Fns, SpillProgram(f)
      PROVE  /\ ready[f] /\ program[f] # <<>> /\ Evict(f) /\ UNCHANGED recorded
             /\ pc # "reserve"
  BY <1>2 DEF SpillProgram, HostTurn
<1>3. CASE PrescanFails
  BY <1>3 DEF PrescanFails
<1>4. CASE PrescanNext
  <2>1. scan.fn \in Fns
    BY <1>4, NAssumption, FieldTypes DEF PrescanNext, Fns
  <2>2. QED
    BY <1>4, <2>1 DEF PrescanNext
<1>5. CASE EvictStep
  <2>1. cursor \in Fns
    BY DEF TypeOK
  <2>2. CASE Victim(cursor) /\ Evict(cursor)
    BY <1>5, <2>1, <2>2 DEF EvictStep, Victim
  <2>3. QED
    BY <1>5, <2>2 DEF EvictStep
<1>6. CASE FinishPrepare
  BY <1>6 DEF FinishPrepare
<1>7. CASE FinishLoad
  BY <1>7 DEF FinishLoad
<1>8. CASE \/ StartJob \/ SetSpillHooks \/ PrescanInstr \/ PrescanDone
           \/ MaybeLoad \/ MaybeSkip \/ Prepare \/ ReserveFails
           \/ ExecuteControl \/ Unimplemented \/ LookupLoad \/ Lookup
           \/ Dispatch \/ EndJob \/ UNCHANGED vars
           \/ \E f \in Fns : LoadProgram(f)
           \/ \E f \in Fns : \E i \in Instrs(f) : Fetch(f, i)
  BY <1>8 DEF StartJob, SetSpillHooks, PrescanInstr, PrescanDone, MaybeLoad,
    MaybeSkip, Prepare, ReserveFails, ExecuteControl, Unimplemented, LookupLoad,
    Lookup, Dispatch, EndJob, vars, LoadProgram, Fetch
<1>9. QED
  BY <1>1, <1>2, <1>3, <1>4, <1>5, <1>6, <1>7, <1>8 DEF Next, Host, Loop

(* After every step an entry is ready exactly when it holds a program, the *)
(* bytes it accounts for are those of that program, and it is not marked   *)
(* as spilled at the same time.                                            *)
THEOREM EntriesConsistent == Spec => []EntryConsistent
(* The fields of an entry agree.  Only installation, eviction and clearing *)
(* touch them.                                                             *)
<1>install. ASSUME TypeOK, EntryConsistent, NEW f \in Fns, NEW p \in Programs, Install(f, p)
            PROVE  EntryConsistent'
  <2> USE <1>install
  <2>1. Len(p) \in Nat /\ (Len(p) > 0 <=> p # <<>>)
    BY EmptySeq, LenProperties DEF Programs
  <2>2. ASSUME NEW g \in Fns
        PROVE  /\ ready'[g] <=> program'[g] # <<>>
               /\ programBytes'[g] = Len(program'[g]) * OpBytes
               /\ spilled'[g] => ~ ready'[g]
    BY <2>1 DEF TypeOK, EntryConsistent, Install
  <2>3. QED
    BY <2>2 DEF EntryConsistent
(* An eviction keeps the fields of every entry in agreement.               *)
<1>evict. ASSUME TypeOK, EntryConsistent, NEW f \in Fns, Evict(f)
          PROVE  EntryConsistent'
  <2> USE <1>evict
  <2>1. ASSUME NEW g \in Fns
        PROVE  /\ ready'[g] <=> program'[g] # <<>>
               /\ programBytes'[g] = Len(program'[g]) * OpBytes
               /\ spilled'[g] => ~ ready'[g]
    <3>1. CASE g = f
      <4>1. program'[f] = <<>> /\ ready'[f] = FALSE /\ programBytes'[f] = 0
        BY DEF TypeOK, Evict
      <4>2. QED
        BY <3>1, <4>1, LimitAssumption
    <3>2. CASE g # f
      <4>1. /\ program'[g] = program[g] /\ ready'[g] = ready[g]
            /\ programBytes'[g] = programBytes[g] /\ spilled'[g] = spilled[g]
        BY <3>2 DEF TypeOK, Evict
      <4>2. QED
        BY <4>1 DEF EntryConsistent
    <3>3. QED
      BY <3>1, <3>2
  <2>2. QED
    BY <2>1 DEF EntryConsistent
(* After a clear the fields of every entry agree.                          *)
<1>clear. ASSUME ClearCache
          PROVE  EntryConsistent'
  <2> USE <1>clear
  <2>1. ASSUME NEW g \in Fns
        PROVE  /\ ready'[g] <=> program'[g] # <<>>
               /\ programBytes'[g] = Len(program'[g]) * OpBytes
               /\ spilled'[g] => ~ ready'[g]
    BY LimitAssumption DEF ClearCache
  <2>2. QED
    BY <2>1 DEF EntryConsistent
<1>1. Init => EntryConsistent
  <2>1. Init => \A g \in Fns :
          /\ program[g] = <<>> /\ ready[g] = FALSE
          /\ spilled[g] = FALSE /\ programBytes[g] = 0
    BY DEF Init, Empty
  <2>2. QED
    BY <2>1, LimitAssumption DEF EntryConsistent
<1>2. TypeOK /\ EntryConsistent /\ [Next]_vars => EntryConsistent'
  <2> SUFFICES ASSUME TypeOK, EntryConsistent, [Next]_vars
               PROVE  EntryConsistent'
    OBVIOUS
  <2>1. CASE EntriesSame
    BY <2>1 DEF EntriesSame, EntryConsistent
  <2>2. CASE ClearCache
    BY <2>2, <1>clear
  <2>3. ASSUME NEW f \in Fns, Evict(f)
        PROVE  EntryConsistent'
    BY <2>3, <1>evict
  <2>4. ASSUME NEW f \in Fns, Install(f, ChunkProgram(f))
        PROVE  EntryConsistent'
    BY <2>4, ChunkPrefix, <1>install
  <2>5. CASE Install(rsv.fn, rsv.incoming)
    BY <2>5, FieldTypes, <1>install
  <2>6. QED
    BY <2>1, <2>2, <2>3, <2>4, <2>5, EntrySteps, FieldTypes DEF Clears
<1>3. QED
  BY <1>1, <1>2, TypeCorrect, PTL DEF Spec

-----------------------------------------------------------------------------
(* The three properties of steps.                                          *)

(* A step that makes the cache larger leaves it within the budget, for     *)
(* every budget, limit and set of bodies.                                  *)
THEOREM GrowthBounded == Spec => GrowthWithinBudget
(* What an installation does to the total.                                 *)
<1>grows. ASSUME TypeOK, NEW f \in Fns, NEW p \in Programs, Install(f, p)
          PROVE  cacheBytes' <= cacheBytes + Len(p) * OpBytes
  <2> USE <1>grows
  <2>1. /\ Released(f) \in Nat /\ Released(f) <= cacheBytes
        /\ cacheBytes \in Nat /\ Len(p) * OpBytes \in Nat
    <3>1. cacheBytes \in Nat /\ programBytes[f] \in Nat
      BY DEF TypeOK
    <3>2. Released(f) <= cacheBytes
      BY <3>1 DEF Released
    <3>3. QED
      BY <3>1, <3>2, BytesNat
  <2>2. QED
    BY <2>1 DEF Install
<1> DEFINE Growth == cacheBytes' > cacheBytes => budget' = 0 \/ cacheBytes' <= budget'
<1>1. TypeOK /\ ThreadState /\ [Next]_vars => [Growth]_vars
  <2> SUFFICES ASSUME TypeOK, ThreadState, [Next]_vars, cacheBytes' > cacheBytes
               PROVE  budget' = 0 \/ cacheBytes' <= budget'
    OBVIOUS
  <2>0. cacheBytes \in Nat /\ budget \in Nat
    BY LimitAssumption DEF TypeOK
  <2>1. CASE EntriesSame
    BY <2>0, <2>1 DEF EntriesSame
  <2>2. CASE ClearCache
    BY <2>0, <2>2 DEF ClearCache
  <2>3. ASSUME NEW f \in Fns, Evict(f)
        PROVE  FALSE
    <3>1. cacheBytes' = Released(f) /\ programBytes[f] \in Nat
      BY <2>3 DEF Evict, TypeOK
    <3>2. QED
      BY <2>0, <3>1 DEF Released
  <2>4. CASE /\ PrescanNext /\ scan.fn \in Fns /\ Precompiles(scan.fn)
             /\ Install(scan.fn, ChunkProgram(scan.fn))
    <3>1. cacheBytes' <= cacheBytes + Chunk(scan.fn) * OpBytes
      BY <2>4, ChunkPrefix, <1>grows
    <3>2. cacheBytes + Chunk(scan.fn) * OpBytes <= budget
      BY <2>4 DEF Precompiles
    <3>3. budget' = budget /\ cacheBytes' \in Nat
      BY <2>4, ChunkPrefix, InstallType DEF PrescanNext
    <3>4. Chunk(scan.fn) * OpBytes \in Nat
      BY <2>4, ChunkPrefix, BytesNat
    <3>5. QED
      BY <2>0, <3>1, <3>2, <3>3, <3>4
  <2>5. ASSUME NEW p \in Programs, pc = "reserve", Fits, UNCHANGED budget,
               rsv.need = Len(p) * OpBytes, Install(rsv.fn, p)
        PROVE  budget' = 0 \/ cacheBytes' <= budget'
    <3>1. /\ cacheBytes' <= cacheBytes + rsv.need
          /\ cacheBytes' \in Nat /\ rsv.need \in Nat
      BY <2>5, FieldTypes, <1>grows, InstallType
    <3>2. QED
      BY <2>0, <2>5, <3>1 DEF Fits
  <2>6. CASE FinishPrepare /\ Install(rsv.fn, ChunkProgram(rsv.fn))
    <3>1. /\ rsv.need = Len(ChunkProgram(rsv.fn)) * OpBytes
          /\ ChunkProgram(rsv.fn) \in Programs
      BY <2>6, FieldTypes, ChunkPrefix DEF FinishPrepare, ThreadState, Reserving
    <3>2. QED
      BY <2>5, <2>6, <3>1 DEF FinishPrepare
  <2>7. CASE FinishLoad /\ Install(rsv.fn, rsv.incoming)
    <3>1. rsv.need = Len(rsv.incoming) * OpBytes /\ rsv.incoming \in Programs
      BY <2>7, FieldTypes DEF FinishLoad, ThreadState, Reserving
    <3>2. QED
      BY <2>5, <2>7, <3>1 DEF FinishLoad
  <2>8. QED
    BY <2>1, <2>2, <2>3, <2>4, <2>6, <2>7, EntrySteps DEF Clears
<1>2. QED
  BY <1>1, TypeCorrect, ThreadCorrect, PTL DEF Spec, GrowthWithinBudget

(* A program that is being installed is never empty. *)
LEMMA Installs ==
  ASSUME TypeOK, ThreadState
  PROVE  /\ FinishPrepare => ChunkProgram(rsv.fn) # <<>>
         /\ FinishLoad => rsv.incoming # <<>>
         /\ \A f \in Fns : Precompiles(f) => ChunkProgram(f) # <<>>
         /\ \A f \in Fns, p \in Programs : p # <<>> /\ Install(f, p) =>
              /\ ready'[f]
              /\ \A g \in Fns \ {f} : /\ program'[g] = program[g]
                                     /\ ready'[g] = ready[g]
                                     /\ spilled'[g] = spilled[g]
<1>1. ASSUME NEW f \in Fns, recorded[f] # <<>>
      PROVE  ChunkProgram(f) # <<>>
  <2>1. /\ Len(ChunkProgram(f)) = Chunk(f) /\ Chunk(f) # 0
        /\ ChunkProgram(f) \in Programs
    BY <1>1, ChunkPrefix
  <2>2. QED
    BY <2>1
<1>2. FinishPrepare => ChunkProgram(rsv.fn) # <<>>
  BY <1>1, FieldTypes DEF FinishPrepare, ThreadState, Reserving
<1>3. ASSUME NEW f \in Fns, NEW p \in Programs, p # <<>>, Install(f, p)
      PROVE  /\ ready'[f]
             /\ \A g \in Fns \ {f} : /\ program'[g] = program[g]
                                    /\ ready'[g] = ready[g]
                                    /\ spilled'[g] = spilled[g]
  <2>1. Len(p) > 0
    BY <1>3, EmptySeq DEF Programs
  <2>2. QED
    BY <1>3, <2>1 DEF Install, TypeOK
<1>4. QED
  BY <1>1, <1>2, <1>3 DEF FinishLoad, ThreadState, Reserving, Precompiles

(* Making room for a function never costs it the program it has.           *)
THEOREM RequesterProtected == Spec => RequesterKeepsProgram
<1> DEFINE Keeps == pc = "reserve" /\ program'[rsv.fn] # program[rsv.fn]
                      => pc' # "reserve" /\ ready'[rsv.fn]
<1>1. TypeOK /\ ThreadState /\ [Next]_vars => [Keeps]_vars
  <2> SUFFICES ASSUME TypeOK, ThreadState, [Next]_vars, pc = "reserve",
                      program'[rsv.fn] # program[rsv.fn]
               PROVE  pc' # "reserve" /\ ready'[rsv.fn]
    OBVIOUS
  <2>1. ASSUME NEW f \in Fns \ {rsv.fn}, Evict(f)
        PROVE  FALSE
    BY <2>1, FieldTypes DEF Evict, TypeOK
  <2>2. CASE FinishPrepare /\ Install(rsv.fn, ChunkProgram(rsv.fn))
    <3>1. ready'[rsv.fn]
      BY <2>2, FieldTypes, ChunkPrefix, Installs
    <3>2. QED
      BY <2>2, <3>1 DEF FinishPrepare, ThreadState, Reserving
  <2>3. CASE FinishLoad /\ Install(rsv.fn, rsv.incoming)
    <3>1. ready'[rsv.fn]
      BY <2>3, FieldTypes, Installs
    <3>2. QED
      BY <2>3, <3>1 DEF FinishLoad, ThreadState, Reserving
  <2>4. ~ PrescanNext
    BY DEF PrescanNext
  <2>5. QED
    BY <2>1, <2>2, <2>3, <2>4, EntrySteps DEF EntriesSame, Clears, Attach
<1>2. QED
  BY <1>1, TypeCorrect, ThreadCorrect, PTL DEF Spec, RequesterKeepsProgram

(* The mark of a spilled program is only taken off by a program or by a    *)
(* detach.                                                                 *)
THEOREM SpilledStays == Spec => SpilledUntilReloaded
<1> DEFINE Stays == \A f \in Fns : spilled[f] /\ ~ spilled'[f]
                      => ready'[f] \/ recorded'[f] = <<>>
<1>1. TypeOK /\ ThreadState /\ EntryConsistent /\ [Next]_vars => [Stays]_vars
  <2> SUFFICES ASSUME TypeOK, ThreadState, EntryConsistent, [Next]_vars,
                      NEW f \in Fns, spilled[f], ~ spilled'[f]
               PROVE  ready'[f] \/ recorded'[f] = <<>>
    OBVIOUS
  <2>1. CASE ClearCache
    BY <2>1 DEF ClearCache
  <2>2. ASSUME NEW g \in Fns, ready[g], Evict(g)
        PROVE  FALSE
    <3>1. f # g
      BY <2>2 DEF EntryConsistent
    <3>2. spilled'[f] = spilled[f]
      BY <2>2, <3>1 DEF Evict, TypeOK
    <3>3. QED
      BY <3>2
  <2>3. ASSUME NEW g \in Fns, NEW p \in Programs, p # <<>>, Install(g, p)
        PROVE  ready'[f]
    <3>1. spilled'[f] = spilled[f] \/ f = g
      BY <2>3, Installs
    <3>2. QED
      BY <2>3, <3>1, Installs
  <2>4. QED
    BY <2>1, <2>2, <2>3, EntrySteps, FieldTypes, ChunkPrefix, Installs
    DEF EntriesSame, Clears
<1>2. QED
  BY <1>1, TypeCorrect, ThreadCorrect, EntriesConsistent, PTL
  DEF Spec, SpilledUntilReloaded

-----------------------------------------------------------------------------
(* What is prepared, kept and loaded is a prefix of what is recorded.  The *)
(* one assumption is that the store does not outlive the attachment.       *)
ProgramPrefix == \A f \in Fns : IsPrefix(program[f], Opcodes(f))

StorePrefix == pc # "detached" => \A f \in Fns : IsPrefix(store[f], Opcodes(f))

SpilledStored == \A f \in Fns : spilled[f] => pc # "detached" /\ store[f] # <<>>

LoadingPrefix == pc = "reserve" /\ rsv.kind = "load"
                   => IsPrefix(rsv.incoming, Opcodes(rsv.fn))

Prefixes == ProgramPrefix /\ StorePrefix /\ SpilledStored /\ LoadingPrefix
              /\ DispatchFaithful

(* The step.  An attach is where the assumption about the store is used.   *)
LEMMA StepPrefixes ==
  ASSUME ~ StorePersists, TypeOK, TypeOK', ThreadState, Prefixes, [Next]_vars
  PROVE  Prefixes'
(* Appending to a record keeps what was a prefix of the opcodes.           *)
<1>keeps. ASSUME TypeOK, NEW f \in Fns, NEW i \in Instrs(f), Record(f, i), TypeOK',
                 NEW g \in Fns, NEW p \in Programs, IsPrefix(p, Opcodes(g))
          PROVE  IsPrefix(p, Opcodes(g)')
  <2> USE <1>keeps
  <2>1. /\ Len(recorded[g]) \in Nat /\ Len(recorded'[g]) \in Nat
        /\ Len(recorded[g]) <= Len(recorded'[g])
        /\ \A k \in 1 .. Len(recorded[g]) : recorded'[g][k] = recorded[g][k]
    <3>1. recorded \in [Fns -> Seq(Nat)] /\ i \in Nat
      BY DEF TypeOK, Instrs
    <3>2. recorded'[g] = recorded[g] \/ recorded'[g] = Append(recorded[g], i)
      BY <3>1 DEF Record
    <3>3. DEFINE r == recorded[g]
    <3>4. r \in Seq(Nat) /\ Len(r) \in Nat
      BY <3>1
    <3>5. /\ Len(Append(r, i)) = Len(r) + 1
          /\ \A k \in 1 .. Len(r) : Append(r, i)[k] = r[k]
      BY <3>1, <3>4
    <3>6. CASE recorded'[g] = r
      BY <3>4, <3>6
    <3>7. CASE recorded'[g] = Append(r, i)
      <4>1. Len(recorded'[g]) = Len(r) + 1
        BY <3>5, <3>7
      <4>2. \A k \in 1 .. Len(r) : recorded'[g][k] = r[k]
        BY <3>5, <3>7
      <4>3. QED
        BY <3>4, <4>1, <4>2
    <3>8. QED
      BY <3>2, <3>6, <3>7
  <2>2. /\ Len(Opcodes(g)) = Len(recorded[g])
        /\ \A k \in 1 .. Len(recorded[g]) : Opcodes(g)[k] = Body[g][recorded[g][k]]
    BY OpcodesSeq
  <2>3. /\ Len(Opcodes(g)') = Len(recorded'[g])
        /\ \A k \in 1 .. Len(recorded'[g]) :
             Opcodes(g)'[k] = Body[g][recorded'[g][k]]
    BY <2>1 DEF Opcodes
  <2>4. /\ Len(p) \in Nat
        /\ Len(p) <= Len(recorded[g])
        /\ \A k \in 1 .. Len(p) : p[k] = Opcodes(g)[k]
    BY <2>2, LenProperties DEF Programs, IsPrefix
  <2>5. Len(p) <= Len(Opcodes(g)')
    BY <2>1, <2>3, <2>4
  <2>6. ASSUME NEW k \in 1 .. Len(p)
        PROVE  p[k] = Opcodes(g)'[k]
    <3>1. k \in 1 .. Len(recorded[g]) /\ k \in 1 .. Len(recorded'[g])
      BY <2>1, <2>4
    <3>2. QED
      BY <2>1, <2>2, <2>3, <2>4, <3>1
  <2>7. QED
    BY <2>5, <2>6 DEF IsPrefix
(* How a step changes the record, if it does. *)
<1>record. ASSUME TypeOK, [Next]_vars
           PROVE  \/ UNCHANGED recorded
                  \/ Clears
                  \/ \E f \in Fns : \E i \in Instrs(f) :
                       /\ Record(f, i) /\ pc \notin {"reserve", "dispatch", "detached"}
                       /\ pc' \notin {"reserve", "dispatch", "detached"}
                       /\ UNCHANGED <<program, store, spilled, rsv, prepared>>
  <2> USE <1>record
  <2> USE DEF entryVars, cacheVars, hostVars, loopVars, Clears
  <2>1. CASE Attach
    BY <2>1 DEF Attach
  <2>2. CASE PrescanFails
    <3>1. /\ scan.fn \in Fns /\ scan.at \in Instrs(scan.fn)
          /\ pc = "prescan" /\ UNCHANGED <<store, rsv, prepared>>
      BY <2>2, BodyAssumption DEF PrescanFails
    <3>2. CASE ClearCache /\ pc' = "detached"
      BY <3>1, <3>2
    <3>3. CASE /\ Record(scan.fn, scan.at) /\ pc' \in {"host", "fetch"}
               /\ UNCHANGED <<program, ready, spilled, programBytes, cacheVars>>
      BY <3>1, <3>3
    <3>4. QED
      BY <2>2, <3>2, <3>3 DEF PrescanFails
  <2>3. CASE PrescanInstr
    <3>1. scan.fn \in Fns
      BY <2>3, NAssumption, FieldTypes DEF PrescanInstr, Fns
    <3>2. QED
      BY <2>3, <3>1 DEF PrescanInstr
  <2>4. ASSUME NEW f \in Fns, NEW i \in Instrs(f), Fetch(f, i)
        PROVE  /\ Record(f, i) /\ pc = "fetch" /\ pc' = "maybe"
               /\ UNCHANGED <<program, store, spilled, rsv, prepared>>
    BY <2>4 DEF Fetch
  <2>5. CASE \/ StartJob \/ SetSpillHooks \/ PrescanNext \/ PrescanDone
             \/ MaybeLoad \/ MaybeSkip \/ Prepare \/ EvictStep \/ ReserveFails
             \/ FinishPrepare \/ FinishLoad
             \/ ExecuteControl \/ Unimplemented \/ LookupLoad \/ Lookup
             \/ Dispatch \/ EndJob \/ UNCHANGED vars
             \/ \E f \in Fns : SpillProgram(f) \/ LoadProgram(f)
    BY <2>5 DEF StartJob, SetSpillHooks, PrescanNext, PrescanDone, MaybeLoad,
      MaybeSkip, Prepare, EvictStep, ReserveFails, FinishPrepare, FinishLoad,
      ExecuteControl, Unimplemented, LookupLoad, Lookup, Dispatch, EndJob, vars,
      SpillProgram, LoadProgram
  <2>6. QED
    BY <2>1, <2>2, <2>3, <2>4, <2>5 DEF Next, Host, Loop
(* The order of the record is the order of the program: the operation at   *)
(* an instruction's recorded index is the instruction's own.               *)
<1>own. ASSUME TypeOK, ProgramPrefix, NEW f \in Fns, NEW i, PreparedOp(f, i) # <<>>
        PROVE  PreparedOp(f, i) = <<Body[f][i]>>
  <2> USE <1>own
  <2>1. /\ Recorded(f, i) /\ IndexOf(f, i) <= Len(program[f])
        /\ PreparedOp(f, i) = <<program[f][IndexOf(f, i)]>>
    BY DEF PreparedOp
  <2>2. /\ IndexOf(f, i) \in 1 .. Len(recorded[f])
        /\ recorded[f][IndexOf(f, i)] = i
    BY <2>1 DEF Recorded, IndexOf
  <2>3. Len(program[f]) \in Nat /\ IndexOf(f, i) \in 1 .. Len(program[f])
    BY <2>1, <2>2, BytesNat DEF TypeOK
  <2>4. program[f][IndexOf(f, i)] = Opcodes(f)[IndexOf(f, i)]
    BY <2>3 DEF ProgramPrefix, IsPrefix
  <2>5. QED
    BY <2>1, <2>2, <2>4, OpcodesSeq
(* What a load in progress is about to install came from the store. *)
<1>loading. ASSUME TypeOK, [Next]_vars, pc' = "reserve", rsv'.kind = "load"
            PROVE  /\ UNCHANGED recorded
                   /\ \/ /\ pc = "reserve" /\ rsv.kind = "load"
                         /\ rsv'.fn = rsv.fn /\ rsv'.incoming = rsv.incoming
                      \/ /\ pc # "detached" /\ rsv'.fn \in Fns
                         /\ rsv'.incoming = store[rsv'.fn]
  <2> USE <1>loading
  <2> USE DEF entryVars, cacheVars, hostVars, loopVars
  <2>1. ASSUME NEW f \in Fns, NEW ok, NEW fail \in PcValues \ {"reserve"},
               pc # "detached", Load(f, ok, fail)
        PROVE  pc # "detached" /\ rsv'.fn \in Fns /\ rsv'.incoming = store[rsv'.fn]
    BY <2>1 DEF Load, Reserve
  <2>2. ASSUME NEW f \in Fns, LoadProgram(f)
        PROVE  /\ UNCHANGED recorded
               /\ pc # "detached" /\ rsv'.fn \in Fns /\ rsv'.incoming = store[rsv'.fn]
    <3>1. pc \in PcValues \ {"reserve"} /\ pc # "detached"
      BY <2>2 DEF LoadProgram, HostTurn, PcValues
    <3>2. QED
      BY <2>1, <2>2, <3>1 DEF LoadProgram
  <2>3. CASE MaybeLoad
    BY <2>1, <2>3, FieldTypes DEF MaybeLoad, PcValues
  <2>4. CASE LookupLoad
    BY <2>1, <2>4, FieldTypes DEF LookupLoad, PcValues
  <2>5. CASE EvictStep
    <3>1. /\ pc = "reserve" /\ rsv' = [rsv EXCEPT !.attempts = @ - 1]
          /\ rsv \in Reservations /\ UNCHANGED recorded
      BY <2>5 DEF EvictStep, TypeOK
    <3>2. QED
      BY <3>1 DEF Reservations
  <2>6. CASE UNCHANGED vars
    BY <2>6 DEF vars
  <2>7. ~ Prepare
    BY DEF Prepare, Reserve
  <2>8. CASE SetSpillHooks \/ \E f \in Fns : SpillProgram(f)
    BY <2>8 DEF SetSpillHooks, SpillProgram, HostTurn
  <2>9. CASE PrescanDone
    BY <2>9 DEF PrescanDone, TypeOK, Scans
  <2>10. CASE ReserveFails \/ FinishPrepare \/ FinishLoad
    BY <2>10 DEF ReserveFails, FinishPrepare, FinishLoad, NoRsv
  <2>11. ~ (Attach \/ StartJob \/ PrescanInstr \/ PrescanFails \/ PrescanNext
             \/ MaybeSkip \/ ExecuteControl \/ Unimplemented \/ Lookup \/ Dispatch
             \/ EndJob \/ \E f \in Fns : \E i \in Instrs(f) : Fetch(f, i))
    BY DEF Attach, StartJob, PrescanInstr, PrescanFails, PrescanNext, MaybeSkip,
      ExecuteControl, Unimplemented, Lookup, Dispatch, EndJob, Fetch
  <2>12. QED
    BY <2>2, <2>3, <2>4, <2>5, <2>6, <2>7, <2>8, <2>9, <2>10, <2>11
    DEF Next, Host, Loop
(* Only a lookup puts an operation up for dispatch. *)
<1>dispatch. ASSUME TypeOK, ThreadState, [Next]_vars, pc' = "dispatch", prepared' # <<>>
             PROVE  \/ UNCHANGED vars
                    \/ /\ Lookup /\ UNCHANGED <<recorded, cur>>
                       /\ prepared' = PreparedOp(cur.fn, cur.at)
  <2> USE <1>dispatch
  <2> USE DEF entryVars, cacheVars, hostVars, loopVars
  <2>1. CASE \/ LookupLoad \/ ReserveFails \/ FinishPrepare \/ FinishLoad
    BY <2>1 DEF LookupLoad, ReserveFails, FinishPrepare, FinishLoad, ThreadState
  <2>2. CASE Lookup
    BY <2>2 DEF Lookup
  <2>3. ASSUME pc # "dispatch", UNCHANGED prepared
        PROVE  FALSE
    BY <2>3 DEF ThreadState
  <2>4. CASE SetSpillHooks \/ \E f \in Fns : SpillProgram(f) \/ LoadProgram(f)
    BY <2>3, <2>4 DEF SetSpillHooks, SpillProgram, LoadProgram, HostTurn
  <2>5. CASE PrescanDone \/ MaybeLoad \/ Prepare \/ EvictStep
    BY <2>3, <2>5 DEF PrescanDone, MaybeLoad, Prepare, EvictStep
  <2>6. ~ (Attach \/ StartJob \/ PrescanInstr \/ PrescanFails \/ PrescanNext
            \/ MaybeSkip \/ ExecuteControl \/ Unimplemented \/ Dispatch
            \/ EndJob \/ \E f \in Fns : \E i \in Instrs(f) : Fetch(f, i))
    BY DEF Attach, StartJob, PrescanInstr, PrescanFails, PrescanNext, MaybeSkip,
      ExecuteControl, Unimplemented, Dispatch, EndJob, Fetch
  <2>7. QED
    BY <2>1, <2>2, <2>4, <2>5, <2>6 DEF Next, Host, Loop
(* Only an attach leaves the detached state, and only a prescan that fails *)
(* goes back to it.                                                        *)
<1>attached. ASSUME TypeOK, ThreadState, [Next]_vars
             PROVE  \/ Clears
                    \/ UNCHANGED vars
                    \/ pc # "detached" /\ pc' # "detached"
  <2> USE <1>attached
  <2> USE DEF entryVars, cacheVars, hostVars, loopVars
  <2>1. CASE \/ LookupLoad \/ MaybeLoad \/ \E f \in Fns : LoadProgram(f)
    BY <2>1 DEF LookupLoad, MaybeLoad, LoadProgram, HostTurn, Load, Reserve
  <2>2. CASE \/ ReserveFails \/ FinishPrepare \/ FinishLoad
    BY <2>2 DEF ReserveFails, FinishPrepare, FinishLoad, ThreadState, Reserving
  <2>3. CASE SetSpillHooks \/ \E f \in Fns : SpillProgram(f)
    BY <2>3 DEF SetSpillHooks, SpillProgram, HostTurn
  <2>4. CASE PrescanDone
    BY <2>4 DEF PrescanDone, TypeOK, Scans
  <2>5. CASE Attach \/ PrescanFails
    BY <2>5 DEF Attach, PrescanFails, Clears
  <2>6. CASE \/ StartJob \/ PrescanInstr \/ PrescanNext \/ MaybeSkip \/ Prepare
             \/ EvictStep \/ ExecuteControl \/ Unimplemented \/ Lookup \/ Dispatch
             \/ EndJob \/ \E f \in Fns : \E i \in Instrs(f) : Fetch(f, i)
    BY <2>6 DEF StartJob, HostTurn, PrescanInstr, PrescanNext, MaybeSkip, Prepare, Reserve,
      EvictStep, ExecuteControl, Unimplemented, Lookup, Dispatch, EndJob, Fetch
  <2>7. QED
    BY <2>1, <2>2, <2>3, <2>4, <2>5, <2>6 DEF Next, Host, Loop
<1>0. \A f \in Fns : program[f] \in Programs /\ store[f] \in Programs
                     /\ Opcodes(f)' \in Seq(Ops)
  <2>1. ASSUME NEW f \in Fns PROVE Opcodes(f)' \in Seq(Ops)
    <3>1. recorded'[f] \in Seq(Nat) /\ Body[f] \in Seq(Ops)
      BY BodyAssumption DEF TypeOK
    <3>2. \A k \in 1 .. Len(recorded'[f]) : Body[f][recorded'[f][k]] \in Ops
      BY <3>1, ElementOfSeq DEF TypeOK, Instrs
    <3>3. QED
      BY <3>1, <3>2 DEF Opcodes
  <2>2. QED
    BY <2>1 DEF TypeOK
<1>empty. \A f \in Fns : IsPrefix(<<>>, Opcodes(f)')
  BY <1>0, LenProperties DEF IsPrefix
<1>1. DispatchFaithful'
  <2> SUFFICES ASSUME pc' = "dispatch", prepared' # <<>>
               PROVE  prepared' = <<Body[cur.fn][cur.at]>>'
    BY DEF DispatchFaithful
  <2>1. CASE UNCHANGED vars
    BY <2>1 DEF Prefixes, DispatchFaithful, vars, loopVars
  <2>2. CASE Lookup /\ UNCHANGED <<recorded, cur>>
             /\ prepared' = PreparedOp(cur.fn, cur.at)
    BY <2>2, FieldTypes, <1>own DEF Prefixes
  <2>3. QED
    BY <2>1, <2>2, <1>dispatch
<1>2. LoadingPrefix'
  <2> SUFFICES ASSUME pc' = "reserve", rsv'.kind = "load"
               PROVE  IsPrefix(rsv.incoming, Opcodes(rsv.fn))'
    BY DEF LoadingPrefix
  <2>1. UNCHANGED recorded
    BY <1>loading
  <2>2. IsPrefix(rsv'.incoming, Opcodes(rsv'.fn))
    BY <1>loading DEF Prefixes, LoadingPrefix, StorePrefix
  <2>3. QED
    BY <2>1, <2>2 DEF Opcodes
<1>3. CASE Clears
  <2>1. \A f \in Fns : program'[f] = <<>> /\ spilled'[f] = FALSE
    BY <1>3 DEF Clears, ClearCache
  <2>2. ProgramPrefix'
    BY <1>0, <2>1, <1>empty DEF ProgramPrefix
  <2>3. StorePrefix'
    <3>1. CASE Attach
      <4>1. \A f \in Fns : store'[f] = <<>>
        BY <3>1 DEF Attach
      <4>2. QED
        BY <1>0, <4>1, <1>empty DEF StorePrefix
    <3>2. QED
      BY <1>3, <3>1 DEF Clears, StorePrefix
  <2>4. QED
    BY <1>1, <1>2, <2>1, <2>2, <2>3 DEF Prefixes, SpilledStored
<1>4. ASSUME NEW f \in Fns, NEW i \in Instrs(f), Record(f, i),
             pc # "detached", pc' # "detached", UNCHANGED <<program, store, spilled>>
      PROVE  Prefixes'
  <2>1. ProgramPrefix'
    BY <1>0, <1>4, <1>keeps DEF Prefixes, ProgramPrefix
  <2>2. StorePrefix'
    BY <1>0, <1>4, <1>keeps DEF Prefixes, StorePrefix
  <2>3. QED
    BY <1>1, <1>2, <1>4, <2>1, <2>2 DEF Prefixes, SpilledStored
<1>5. CASE UNCHANGED recorded /\ ~ Clears
  <2>1. \A f \in Fns : Opcodes(f)' = Opcodes(f)
    BY <1>5 DEF Opcodes
  <2>2. \/ UNCHANGED vars
        \/ pc # "detached" /\ pc' # "detached"
    BY <1>5, <1>attached
  <2>3. CASE EntriesSame
    <3>1. UNCHANGED <<program, spilled, store>>
      BY <2>3 DEF EntriesSame
    <3>2. ProgramPrefix' /\ StorePrefix' /\ SpilledStored'
      BY <2>1, <2>2, <3>1
      DEF Prefixes, ProgramPrefix, StorePrefix, SpilledStored, vars
    <3>3. QED
      BY <1>1, <1>2, <3>2 DEF Prefixes
  <2>4. ASSUME NEW f \in Fns, program[f] # <<>>, Evict(f)
        PROVE  Prefixes'
    <3>1. /\ program'[f] = <<>>
          /\ store'[f] \in {store[f], program[f]}
          /\ spilled'[f] => store'[f] = program[f]
      BY <2>4 DEF Evict, TypeOK
    <3>2. ASSUME NEW g \in Fns \ {f}
          PROVE  /\ program'[g] = program[g] /\ store'[g] = store[g]
                 /\ spilled'[g] = spilled[g]
      BY <2>4 DEF Evict, TypeOK
    <3>3. pc # "detached" /\ pc' # "detached"
      BY <2>2, <2>4, <3>1 DEF vars, entryVars
    <3>4. ProgramPrefix'
      BY <1>0, <2>1, <3>1, <3>2, <1>empty DEF Prefixes, ProgramPrefix
    <3>5. StorePrefix'
      BY <2>1, <3>1, <3>2, <3>3 DEF Prefixes, ProgramPrefix, StorePrefix
    <3>6. SpilledStored'
      BY <2>4, <3>1, <3>2, <3>3 DEF Prefixes, SpilledStored
    <3>7. QED
      BY <1>1, <1>2, <3>4, <3>5, <3>6 DEF Prefixes
  <2>5. ASSUME NEW f \in Fns, NEW p \in Programs, IsPrefix(p, Opcodes(f)),
               p # <<>>, Install(f, p), UNCHANGED store
        PROVE  Prefixes'
    <3>1. /\ program'[f] = p /\ spilled'[f] = FALSE
          /\ \A g \in Fns \ {f} : program'[g] = program[g] /\ spilled'[g] = spilled[g]
      BY <2>5, Installs DEF Install, TypeOK
    <3>2. ProgramPrefix'
      BY <2>1, <2>5, <3>1 DEF Prefixes, ProgramPrefix
    <3>3. StorePrefix'
      BY <2>1, <2>2, <2>5 DEF Prefixes, StorePrefix, vars
    <3>4. SpilledStored'
      BY <2>2, <2>5, <3>1 DEF Prefixes, SpilledStored, vars, entryVars
    <3>5. QED
      BY <1>1, <1>2, <3>2, <3>3, <3>4 DEF Prefixes
  <2>6. FinishPrepare \/ FinishLoad => UNCHANGED store
    BY DEF FinishPrepare, FinishLoad, hostVars
  <2>7. FinishLoad => IsPrefix(rsv.incoming, Opcodes(rsv.fn))
    BY DEF FinishLoad, Prefixes, LoadingPrefix
  <2>8. QED
    BY <1>5, <2>3, <2>4, <2>5, <2>6, <2>7, EntrySteps, FieldTypes, ChunkPrefix,
       Installs
<1>6. QED
  BY <1>3, <1>4, <1>5, <1>record

(* When the store goes with the attachment, every program, stored copy and *)
(* load in progress is a prefix of the recording.                          *)
LEMMA PrefixesCorrect ==
  ASSUME ~ StorePersists
  PROVE  Spec => []Prefixes
<1>1. Init => TypeOK /\ Prefixes
  <2> SUFFICES ASSUME Init PROVE TypeOK /\ Prefixes
    OBVIOUS
  <2>1. TypeOK
    BY InitType
  <2>2. /\ \A f \in Fns : program[f] = <<>> /\ store[f] = <<>> /\ ~ spilled[f]
        /\ pc = "detached"
    BY DEF Init, Empty
  <2>3. \A f \in Fns : IsPrefix(<<>>, Opcodes(f))
    BY <2>1, OpcodesSeq, LenProperties DEF Programs, IsPrefix
  <2>4. QED
    BY <2>1, <2>2, <2>3 DEF Prefixes, ProgramPrefix, StorePrefix, SpilledStored,
      LoadingPrefix, DispatchFaithful
<1>2. TypeOK /\ TypeOK' /\ ThreadState /\ Prefixes /\ [Next]_vars => Prefixes'
  BY StepPrefixes
<1>3. QED
  BY <1>1, <1>2, TypeCorrect, ThreadCorrect, PTL DEF Spec

(* Within one attachment only the decoded instruction's own operation is   *)
(* dispatched, in whatever order instructions are recorded, prepared,      *)
(* evicted, spilled and loaded.  The violation of DispatchFaithful that    *)
(* JitCacheReboot.cfg shows needs the assumption to fail.                  *)
THEOREM DispatchCorrect ==
  ASSUME ~ StorePersists
  PROVE  Spec => []DispatchFaithful
<1>1. Prefixes => DispatchFaithful
  BY DEF Prefixes
<1>2. QED
  BY <1>1, PrefixesCorrect, PTL

(* Within one attachment the program of a function marked as spilled is in *)
(* the store and is a prefix of what is recorded.                          *)
THEOREM SpilledCorrect ==
  ASSUME ~ StorePersists
  PROVE  Spec => []SpilledRecoverable
<1>1. Prefixes => SpilledRecoverable
  BY DEF Prefixes, SpilledStored, StorePrefix, SpilledRecoverable
<1>2. QED
  BY <1>1, PrefixesCorrect, PTL

-----------------------------------------------------------------------------
(* s is the running sum of b up to n. *)
IsSum(s, b, n) ==
  /\ s \in [0 .. n -> Nat]
  /\ s[0] = 0
  /\ \A k \in 1 .. n : s[k] = s[k-1] + b[k-1]

(* The recursive function of the specification is that sum. *)
LEMMA BytesBelowSum ==
  ASSUME NEW b \in [Fns -> Nat]
  PROVE  IsSum(BytesBelow(b), b, N)
(* b has a running sum.                                                    *)
<1>exists. \E s : IsSum(s, b, N)
  <2> DEFINE S == {n \in Nat : n <= N => \E s : IsSum(s, b, n)}
  <2>1. 0 \in S
    <3>1. IsSum([k \in 0 .. 0 |-> 0], b, 0)
      BY DEF IsSum
    <3>2. QED
      BY <3>1
  <2>2. ASSUME NEW n \in Nat, n \in S
        PROVE  n + 1 \in S
    <3>1. SUFFICES ASSUME n + 1 <= N
                   PROVE  \E s : IsSum(s, b, n + 1)
      OBVIOUS
    <3>2. PICK s : IsSum(s, b, n)
      BY <2>2, <3>1, NAssumption
    <3>3. DEFINE t == [k \in 0 .. n+1 |-> IF k = n + 1 THEN s[n] + b[n] ELSE s[k]]
    <3>4. n \in Fns /\ s[n] \in Nat /\ b[n] \in Nat
      BY <3>1, <3>2, NAssumption DEF Fns, IsSum
    <3>5. t \in [0 .. n+1 -> Nat] /\ t[0] = 0
      BY <3>2, <3>4 DEF IsSum
    <3>6. ASSUME NEW k \in 1 .. n+1
          PROVE  t[k] = t[k-1] + b[k-1]
      BY <3>2 DEF IsSum
    <3>7. QED
      BY <3>5, <3>6 DEF IsSum
  <2>3. N \in S
    BY <2>1, <2>2, SetInduction, NAssumption
  <2>4. QED
    BY <2>3, NAssumption
<1> DEFINE P(s) == s = [n \in 0 .. N |-> IF n = 0 THEN 0 ELSE s[n-1] + b[n-1]]
<1>1. PICK s : IsSum(s, b, N)
  BY <1>exists
<1>2. s = [n \in 0 .. N |-> IF n = 0 THEN 0 ELSE s[n-1] + b[n-1]]
  <2>1. \A n \in 0 .. N : s[n] = IF n = 0 THEN 0 ELSE s[n-1] + b[n-1]
    BY <1>1, NAssumption DEF IsSum
  <2>2. QED
    BY <1>1, <2>1 DEF IsSum
<1>3. BytesBelow(b) = CHOOSE f : P(f)
  BY DEF BytesBelow
<1>4. P(BytesBelow(b))
  BY <1>2, <1>3
<1>5. ASSUME NEW f, P(f)
      PROVE  f = s
  <2> DEFINE S == {n \in Nat : n <= N => f[n] = s[n]}
  <2>1. 0 \in S
    BY <1>1, <1>5, NAssumption DEF IsSum
  <2>2. ASSUME NEW n \in Nat, n \in S
        PROVE  n + 1 \in S
    BY <1>1, <1>5, <2>2, NAssumption DEF IsSum
  <2>3. \A n \in 0 .. N : f[n] = s[n]
    <3>1. Nat \subseteq S
      BY <2>1, <2>2, SetInduction
    <3>2. QED
      BY <3>1, NAssumption
  <2>4. QED
    BY <1>1, <1>5, <2>3 DEF IsSum
<1>6. QED
  BY <1>1, <1>4, <1>5

(* The running total of the cache is the sum of its entries' bytes: no     *)
(* release, install, eviction, clearing or failure path loses count, and   *)
(* the guard against a negative total is never needed.                     *)
THEOREM TotalAccounted == Spec => []BytesAccounted
(* A change of one term changes the sum by as much, and no term exceeds    *)
(* the sum.                                                                *)
<1>update. ASSUME NEW b \in [Fns -> Nat], NEW f \in Fns, NEW v \in Nat
           PROVE  /\ BytesBelow([b EXCEPT ![f] = v])[N] = BytesBelow(b)[N] - b[f] + v
                  /\ b[f] <= BytesBelow(b)[N]
                  /\ BytesBelow(b)[N] \in Nat
  <2> USE <1>update
  <2> DEFINE c == [b EXCEPT ![f] = v]
             s == BytesBelow(b)
             t == BytesBelow(c)
  <2>1. c \in [Fns -> Nat] /\ c[f] = v /\ \A g \in Fns \ {f} : c[g] = b[g]
    OBVIOUS
  <2>2. IsSum(s, b, N) /\ IsSum(t, c, N)
    BY <2>1, BytesBelowSum
  <2> HIDE DEF c, s, t
  <2> DEFINE S == {n \in Nat : n <= N =>
                    IF n <= f THEN t[n] = s[n]
                    ELSE t[n] = s[n] - b[f] + v /\ b[f] <= s[n]}
  <2>3. 0 \in S
    BY <2>2 DEF IsSum, Fns
  <2>4. ASSUME NEW n \in Nat, n \in S
        PROVE  n + 1 \in S
    <3>1. SUFFICES ASSUME n + 1 <= N
                   PROVE  IF n + 1 <= f THEN t[n+1] = s[n+1]
                          ELSE t[n+1] = s[n+1] - b[f] + v /\ b[f] <= s[n+1]
      OBVIOUS
    <3>2. /\ t[n+1] = t[n] + c[n] /\ s[n+1] = s[n] + b[n]
          /\ s[n] \in Nat /\ t[n] \in Nat /\ b[n] \in Nat /\ c[n] \in Nat
          /\ b[f] \in Nat /\ n \in Fns
      <4>1. n \in Fns /\ n + 1 \in 1 .. N /\ n \in 0 .. N /\ (n + 1) - 1 = n
        BY <3>1, NAssumption DEF Fns
      <4>2. QED
        BY <2>1, <2>2, <4>1 DEF IsSum
    <3>3. IF n <= f THEN t[n] = s[n]
          ELSE t[n] = s[n] - b[f] + v /\ b[f] <= s[n]
      BY <2>4, <3>1, NAssumption
    <3>4. CASE n + 1 <= f
      BY <2>1, <3>2, <3>3, <3>4 DEF Fns
    <3>5. CASE n = f
      BY <2>1, <3>2, <3>3, <3>5 DEF Fns
    <3>6. CASE n > f
      BY <2>1, <3>2, <3>3, <3>6 DEF Fns
    <3>7. QED
      BY <3>2, <3>4, <3>5, <3>6 DEF Fns
  <2>5. N \in S
    BY <2>3, <2>4, SetInduction, NAssumption
  <2>6. s[N] \in Nat
    BY <2>2, NAssumption DEF IsSum
  <2>7. t[N] = s[N] - b[f] + v /\ b[f] <= s[N]
    BY <2>5, NAssumption DEF Fns
  <2>8. QED
    BY <2>6, <2>7 DEF c, s, t
(* The sum of zeros is zero.                                               *)
<1>zero. ASSUME NEW b \in [Fns -> Nat], \A f \in Fns : b[f] = 0
         PROVE  BytesBelow(b)[N] = 0
  <2> USE <1>zero
  <2> DEFINE s == BytesBelow(b)
  <2>1. IsSum(s, b, N)
    BY BytesBelowSum
  <2> HIDE DEF s
  <2> DEFINE S == {n \in Nat : n <= N => s[n] = 0}
  <2>2. 0 \in S
    BY <2>1 DEF IsSum
  <2>3. ASSUME NEW n \in Nat, n \in S
        PROVE  n + 1 \in S
    <3>1. SUFFICES ASSUME n + 1 <= N
                   PROVE  s[n+1] = 0
      OBVIOUS
    <3>2. n \in Fns /\ n + 1 \in 1 .. N /\ (n + 1) - 1 = n
      BY <3>1, NAssumption DEF Fns
    <3>3. s[n+1] = s[n] + b[n] /\ b[n] = 0
      BY <2>1, <3>2 DEF IsSum
    <3>4. QED
      BY <2>3, <3>1, <3>3, NAssumption
  <2>4. N \in S
    BY <2>2, <2>3, SetInduction, NAssumption
  <2>5. QED
    BY <2>4, NAssumption DEF s
<1>1. Init => BytesAccounted
  <2>1. Init => /\ programBytes \in [Fns -> Nat] /\ cacheBytes = 0
                /\ \A f \in Fns : programBytes[f] = 0
    BY DEF Init, Empty
  <2>2. QED
    BY <2>1, <1>zero DEF BytesAccounted, TotalBytes
<1>2. TypeOK /\ TypeOK' /\ BytesAccounted /\ [Next]_vars => BytesAccounted'
  <2> SUFFICES ASSUME TypeOK, TypeOK', BytesAccounted, [Next]_vars
               PROVE  BytesAccounted'
    OBVIOUS
  <2>0. /\ programBytes \in [Fns -> Nat] /\ programBytes' \in [Fns -> Nat]
        /\ cacheBytes \in Nat /\ cacheBytes = BytesBelow(programBytes)[N]
    BY DEF TypeOK, BytesAccounted, TotalBytes
  <2>1. CASE EntriesSame
    BY <2>0, <2>1 DEF EntriesSame, BytesAccounted, TotalBytes
  <2>2. CASE Clears
    <3>1. cacheBytes' = 0 /\ \A f \in Fns : programBytes'[f] = 0
      BY <2>2 DEF Clears, ClearCache
    <3>2. BytesBelow(programBytes')[N] = 0
      BY <2>0, <3>1, <1>zero
    <3>3. QED
      BY <3>1, <3>2 DEF BytesAccounted, TotalBytes
  <2>3. ASSUME NEW f \in Fns, NEW v \in Nat,
               programBytes' = [programBytes EXCEPT ![f] = v],
               cacheBytes' = Released(f) + v
        PROVE  BytesAccounted'
    <3>1. /\ BytesBelow(programBytes')[N]
              = BytesBelow(programBytes)[N] - programBytes[f] + v
          /\ programBytes[f] <= cacheBytes
          /\ programBytes[f] \in Nat
      <4> DEFINE b == programBytes
                 c == programBytes'
      <4>1. b \in [Fns -> Nat] /\ c = [b EXCEPT ![f] = v] /\ b[f] \in Nat
            /\ cacheBytes = BytesBelow(b)[N]
        BY <2>0, <2>3
      <4> HIDE DEF b, c
      <4>2. /\ BytesBelow(c)[N] = BytesBelow(b)[N] - b[f] + v
            /\ b[f] <= BytesBelow(b)[N]
        BY <4>1, <1>update
      <4>3. QED
        BY <4>1, <4>2 DEF b, c
    <3>2. Released(f) = cacheBytes - programBytes[f]
      BY <2>0, <3>1 DEF Released
    <3>3. cacheBytes' = BytesBelow(programBytes)[N] - programBytes[f] + v
      BY <2>0, <2>3, <3>2
    <3>4. QED
      BY <3>1, <3>3 DEF BytesAccounted, TotalBytes
  <2>4. ASSUME NEW f \in Fns, Evict(f)
        PROVE  BytesAccounted'
    <3>1. /\ programBytes' = [programBytes EXCEPT ![f] = 0]
          /\ cacheBytes' = Released(f) + 0
      BY <2>4, BytesNat DEF Evict
    <3>2. QED
      BY <2>3, <3>1
  <2>5. ASSUME NEW f \in Fns, NEW p \in Programs, Install(f, p)
        PROVE  BytesAccounted'
    <3>1. /\ programBytes' = [programBytes EXCEPT ![f] = Len(p) * OpBytes]
          /\ cacheBytes' = Released(f) + Len(p) * OpBytes
          /\ Len(p) * OpBytes \in Nat
      BY <2>5, BytesNat DEF Install
    <3>2. QED
      BY <2>3, <3>1
  <2>6. QED
    BY <2>1, <2>2, <2>4, <2>5, EntrySteps, FieldTypes, ChunkPrefix
<1>3. QED
  BY <1>1, <1>2, TypeCorrect, PTL DEF Spec
=============================================================================
