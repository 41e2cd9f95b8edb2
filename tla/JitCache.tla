------------------------------ MODULE JitCache ------------------------------
(***************************************************************************)
(* The per-function cache of prepared ("microcode") programs of            *)
(* fa_runtime.c: the recording of opcodes in the order they are first      *)
(* executed or scanned, the preparation of a program from them, the byte   *)
(* budget with its round-robin eviction, and the spill and load hooks      *)
(* through which the embedder keeps evicted programs.                      *)
(*                                                                         *)
(* The thread of control is the program counter "pc": the execution loop   *)
(* takes one instruction through fetch, maybe, prepare, lookup and         *)
(* dispatch, and a reservation is a loop of its own ("reserve") because it *)
(* calls the embedder's spill hook in the middle.  Which instruction comes *)
(* next is left open: any of any function with a body.                     *)
(***************************************************************************)
EXTENDS Integers, Sequences

CONSTANTS
  N,               \* functions of the module; indices are 0 .. N-1
  Ops,             \* opcodes
  Body,            \* Body[f]: the opcodes of f in address order, <<>> when imported
  ControlOps,      \* opcodes the loop executes itself, without a lookup
  NoDescriptor,    \* opcodes fa_get_op knows no operation for
  Unscannable,     \* functions whose last instruction the prescanner rejects
  OpBytes,         \* sizeof(fa_JitPreparedOp)
  MaxOpsPerChunk,  \* budget.max_ops_per_chunk, 0 for no limit
  MaxChunks,       \* budget.max_chunks, 0 for no limit
  CacheBudgets,    \* the cache_budget_bytes the configuration can yield
  PrescanAtAttach, \* values config.prescan_functions may have at an attach
  PrescanForced,   \* values config.prescan_force may have at a job
  StorePersists    \* the embedder's store outlives a detach or a reboot

Fns == 0 .. N-1

ASSUME NAssumption == N \in Nat \ {0}
ASSUME BodyAssumption == /\ Body \in [Fns -> Seq(Ops)]
                         /\ ControlOps \subseteq Ops
                         /\ NoDescriptor \subseteq Ops
                         /\ Unscannable \subseteq Fns
ASSUME LimitAssumption == /\ OpBytes \in Nat \ {0}
                          /\ MaxOpsPerChunk \in Nat
                          /\ MaxChunks \in Nat
                          /\ CacheBudgets \subseteq Nat \ {0}
ASSUME FlagAssumption == /\ PrescanAtAttach \subseteq BOOLEAN
                         /\ PrescanForced \subseteq BOOLEAN
                         /\ StorePersists \in BOOLEAN

VARIABLES
  recorded,      \* entry->offsets: the instructions of f in recorded order
  program,       \* entry->program.ops: the prepared opcodes of f
  ready,         \* entry->ready
  spilled,       \* entry->spilled
  programBytes,  \* entry->program_bytes
  cacheBytes,    \* runtime->jit_cache_bytes
  cursor,        \* runtime->jit_cache_eviction_cursor
  prescanned,    \* runtime->jit_cache_prescanned
  microcode,     \* decision.tier = FA_JIT_TIER_MICROCODE
  budget,        \* decision.budget.cache_budget_bytes
  hooks,         \* which of the JIT spill hooks are installed
  store,         \* the embedder's store: the program last spilled for f
  pc,            \* where the thread of control is
  cur,           \* the instruction the loop is executing
  prepared,      \* the operation the lookup returned, <<>> for none
  scan,          \* the prescanner's position
  rsv            \* the reservation in progress

entryVars == <<recorded, program, ready, spilled, programBytes>>
cacheVars == <<cacheBytes, cursor, prescanned>>
hostVars  == <<hooks, store>>
loopVars  == <<cur, prepared, scan, rsv>>
vars == <<entryVars, cacheVars, microcode, budget, hostVars, pc, loopVars>>

-----------------------------------------------------------------------------
Instrs(f) == 1 .. Len(Body[f])

(* entry->opcodes: the opcodes of f in recorded order. *)
Opcodes(f) == [k \in 1 .. Len(recorded[f]) |-> Body[f][recorded[f][k]]]

Recorded(f, i) == \E k \in 1 .. Len(recorded[f]) : recorded[f][k] = i

(* entry->pc_to_index[i], from 1 as sequences are; only for a recorded i. *)
IndexOf(f, i) == CHOOSE k \in 1 .. Len(recorded[f]) : recorded[f][k] = i

(* The number of opcodes prepared at once. *)
Chunk(f) == IF MaxOpsPerChunk > 0 /\ Len(recorded[f]) > MaxOpsPerChunk
            THEN MaxOpsPerChunk
            ELSE Len(recorded[f])

(* What fa_jit_prepare_program_from_opcodes makes of the first Chunk(f)    *)
(* recorded opcodes, if it can: one without a descriptor fails it.         *)
ChunkProgram(f) == [k \in 1 .. Chunk(f) |-> Opcodes(f)[k]]
Preparable(f) == \A k \in 1 .. Chunk(f) : Opcodes(f)[k] \notin NoDescriptor

Programs == Seq(Ops)
PcValues == {"detached", "host", "prescan", "fetch", "maybe", "prepare",
             "lookup", "reserve", "dispatch"}

Currents == [fn : Fns, at : Nat, hot : BOOLEAN]
Scans == [fn : 0 .. N, at : Nat, compiled : Nat, back : {"host", "fetch"}]
Reservations ==
  [fn : Fns, need : Nat, attempts : 0 .. N, incoming : Programs,
   kind : {"none", "prepare", "load"}, ok : PcValues, fail : PcValues]

(* No reservation is in progress. *)
NoRsv == [fn |-> 0, need |-> 0, attempts |-> 0, incoming |-> <<>>,
          kind |-> "none", ok |-> "host", fail |-> "host"]

NoInstr == [fn |-> 0, at |-> 0, hot |-> FALSE]

NoScan == [fn |-> 0, at |-> 1, compiled |-> 0, back |-> "host"]

TypeOK ==
  /\ recorded \in [Fns -> Seq(Nat)]
  /\ \A f \in Fns : \A k \in 1 .. Len(recorded[f]) : recorded[f][k] \in Instrs(f)
  /\ program \in [Fns -> Programs]
  /\ ready \in [Fns -> BOOLEAN]
  /\ spilled \in [Fns -> BOOLEAN]
  /\ programBytes \in [Fns -> Nat]
  /\ cacheBytes \in Nat
  /\ cursor \in Fns
  /\ prescanned \in BOOLEAN
  /\ microcode \in BOOLEAN
  /\ budget \in CacheBudgets \cup {0}
  /\ hooks \in [spill : BOOLEAN, load : BOOLEAN]
  /\ store \in [Fns -> Programs]
  /\ pc \in PcValues
  /\ cur \in Currents
  /\ prepared \in Programs
  /\ scan \in Scans
  /\ rsv \in Reservations

(* Before a module is attached. *)
Empty ==
  /\ recorded = [f \in Fns |-> <<>>]
  /\ program = [f \in Fns |-> <<>>]
  /\ ready = [f \in Fns |-> FALSE]
  /\ spilled = [f \in Fns |-> FALSE]
  /\ programBytes = [f \in Fns |-> 0]
  /\ cacheBytes = 0
  /\ cursor = 0
  /\ prescanned = FALSE

Init ==
  /\ Empty
  /\ microcode = FALSE
  /\ budget \in CacheBudgets \cup {0}
  /\ hooks = [spill |-> FALSE, load |-> FALSE]
  /\ store = [f \in Fns |-> <<>>]
  /\ pc = "detached"
  /\ cur = NoInstr
  /\ prepared = <<>>
  /\ scan = NoScan
  /\ rsv = NoRsv

-----------------------------------------------------------------------------
(* Shared steps of the operations below.                                   *)

(* fa_jit_context_update: too little RAM or too few CPUs leave the budget  *)
(* zeroed and the tier off; otherwise the score decides the tier.          *)
Decide ==
  /\ budget' \in CacheBudgets \cup {0}
  /\ microcode' \in BOOLEAN
  /\ microcode' => budget' # 0

(* The same, at an instruction: since the job began the statistics have    *)
(* only grown, so the tier can only rise, and the configuration the budget *)
(* comes from is what it was.                                              *)
Rise == /\ microcode' \in {microcode, budget # 0}
        /\ microcode => microcode'
        /\ UNCHANGED budget

(* runtime_jit_cache_clear. *)
ClearCache ==
  /\ recorded' = [f \in Fns |-> <<>>]
  /\ program' = [f \in Fns |-> <<>>]
  /\ ready' = [f \in Fns |-> FALSE]
  /\ spilled' = [f \in Fns |-> FALSE]
  /\ programBytes' = [f \in Fns |-> 0]
  /\ cacheBytes' = 0
  /\ cursor' = 0
  /\ prescanned' = FALSE

(* runtime_jit_cache_record_opcode: an instruction is recorded once, at    *)
(* the end of the sequence.                                                *)
Record(f, i) ==
  recorded' = IF Recorded(f, i) THEN recorded
              ELSE [recorded EXCEPT ![f] = Append(@, i)]

(* What is left of the total when f's program is released; the code skips  *)
(* the subtraction rather than wrap below zero.                            *)
Released(f) == IF programBytes[f] > 0 /\ cacheBytes >= programBytes[f]
               THEN cacheBytes - programBytes[f] ELSE cacheBytes

(* Defect: the old program's bytes are not taken off the total.            *)
BugInstallNoRelease(f, p) ==
  /\ program' = [program EXCEPT ![f] = p]
  /\ programBytes' = [programBytes EXCEPT ![f] = Len(p) * OpBytes]
  /\ cacheBytes' = cacheBytes + Len(p) * OpBytes
  /\ ready' = [ready EXCEPT ![f] = Len(p) > 0]
  /\ spilled' = [spilled EXCEPT ![f] = FALSE]

(* Defect: the mark of the spilled copy outlives the installation.         *)
BugInstallStillSpilled(f, p) ==
  /\ program' = [program EXCEPT ![f] = p]
  /\ programBytes' = [programBytes EXCEPT ![f] = Len(p) * OpBytes]
  /\ cacheBytes' = Released(f) + Len(p) * OpBytes
  /\ ready' = [ready EXCEPT ![f] = Len(p) > 0]
  /\ UNCHANGED spilled

(* runtime_jit_cache_release_program, then the assignments that put p in   *)
(* its place.                                                              *)
Install(f, p) ==
  /\ program' = [program EXCEPT ![f] = p]
  /\ programBytes' = [programBytes EXCEPT ![f] = Len(p) * OpBytes]
  /\ cacheBytes' = Released(f) + Len(p) * OpBytes
  /\ ready' = [ready EXCEPT ![f] = Len(p) > 0]
  /\ spilled' = [spilled EXCEPT ![f] = FALSE]

(* Defect: the entry counts as spilled whatever the hook answered.         *)
BugEvictAlwaysSpilled(f) ==
  \E kept \in (IF hooks.spill THEN BOOLEAN ELSE {FALSE}) :
    /\ store' = IF kept THEN [store EXCEPT ![f] = program[f]] ELSE store
    /\ spilled' = [spilled EXCEPT ![f] = TRUE]
    /\ program' = [program EXCEPT ![f] = <<>>]
    /\ programBytes' = [programBytes EXCEPT ![f] = 0]
    /\ cacheBytes' = Released(f)
    /\ ready' = [ready EXCEPT ![f] = FALSE]

(* runtime_jit_cache_evict_entry: the spill hook, where there is one, may  *)
(* keep the program or refuse it; the program is dropped either way.       *)
Evict(f) ==
  \E kept \in (IF hooks.spill THEN BOOLEAN ELSE {FALSE}) :
    /\ store' = IF kept THEN [store EXCEPT ![f] = program[f]] ELSE store
    /\ spilled' = [spilled EXCEPT ![f] = kept]
    /\ program' = [program EXCEPT ![f] = <<>>]
    /\ programBytes' = [programBytes EXCEPT ![f] = 0]
    /\ cacheBytes' = Released(f)
    /\ ready' = [ready EXCEPT ![f] = FALSE]

(* Enter runtime_jit_cache_reserve_bytes for p, the program of f; the      *)
(* thread goes to ok when there is room and to fail when there is not.     *)
Reserve(f, p, need, kind, ok, fail) ==
  /\ rsv' = [fn |-> f, need |-> need, attempts |-> N, incoming |-> p,
             kind |-> kind, ok |-> ok, fail |-> fail]
  /\ pc' = "reserve"

(* runtime_jit_cache_load_entry up to its reservation: the load hook       *)
(* returns what the store holds, or fails.                                 *)
LoadPossible(f) == hooks.load /\ recorded[f] # <<>>
Load(f, ok, fail) ==
  /\ LoadPossible(f)
  /\ \/ /\ store[f] # <<>>
        /\ Reserve(f, store[f], Len(store[f]) * OpBytes, "load", ok, fail)
     \/ /\ pc' = fail
        /\ UNCHANGED rsv

-----------------------------------------------------------------------------
(* Attach, prescan and detach.                                             *)

(* fa_Runtime_attachModule and runtime_jit_cache_init.  Attaching detaches *)
(* first; a store in RAM goes with the device's reboot, a store on a card  *)
(* does not.                                                               *)
Attach ==
  /\ pc \in {"detached", "host"}
  /\ ClearCache
  /\ Decide
  /\ store' = IF StorePersists THEN store ELSE [f \in Fns |-> <<>>]
  /\ scan' = NoScan
  /\ \E on \in PrescanAtAttach : pc' = IF on THEN "prescan" ELSE "host"
  /\ UNCHANGED <<hooks, cur, prepared, rsv>>

(* runtime_jit_prescan_function: one turn of its loop.                     *)
PrescanInstr ==
  /\ pc = "prescan"
  /\ scan.fn < N
  /\ scan.at \in Instrs(scan.fn)
  /\ ~ (scan.fn \in Unscannable /\ scan.at = Len(Body[scan.fn]))
  /\ Record(scan.fn, scan.at)
  /\ scan' = [scan EXCEPT !.at = @ + 1]
  /\ UNCHANGED <<program, ready, spilled, programBytes, cacheVars, microcode,
                 budget, hostVars, pc, cur, prepared, rsv>>

(* The prescanner records an instruction before it skips the immediates it *)
(* cannot skip.  At attach the error clears the cache and detaches; before *)
(* a job it only ends the call, and a job around that one goes on.         *)
PrescanFails ==
  /\ pc = "prescan"
  /\ scan.fn \in Unscannable
  /\ scan.at \in Instrs(scan.fn)
  /\ scan.at = Len(Body[scan.fn])
  /\ IF scan.back = "host"
     THEN ClearCache /\ pc' = "detached"
     ELSE /\ Record(scan.fn, scan.at)
          /\ pc' \in {"host", "fetch"}
          /\ UNCHANGED <<program, ready, spilled, programBytes, cacheVars>>
  /\ scan' = NoScan
  /\ UNCHANGED <<microcode, budget, hostVars, cur, prepared, rsv>>

(* runtime_jit_cache_prescan after a body: the program is prepared at once *)
(* if there is a budget, a chunk is left and its estimate fits as it is.   *)
Precompiles(f) ==
  /\ recorded[f] # <<>>
  /\ budget > 0
  /\ MaxChunks = 0 \/ scan.compiled < MaxChunks
  /\ cacheBytes + Chunk(f) * OpBytes <= budget
  /\ Preparable(f)

PrescanNext ==
  /\ pc = "prescan"
  /\ scan.fn < N
  /\ scan.at \notin Instrs(scan.fn)
  /\ IF Precompiles(scan.fn)
     THEN /\ Install(scan.fn, ChunkProgram(scan.fn))
          /\ scan' = [scan EXCEPT !.fn = @ + 1, !.at = 1, !.compiled = @ + 1]
     ELSE /\ scan' = [scan EXCEPT !.fn = @ + 1, !.at = 1]
          /\ UNCHANGED <<program, ready, spilled, programBytes, cacheBytes>>
  /\ UNCHANGED <<recorded, cursor, prescanned, microcode, budget, hostVars, pc,
                 cur, prepared, rsv>>

PrescanDone ==
  /\ pc = "prescan"
  /\ scan.fn = N
  /\ prescanned' = TRUE
  /\ pc' = scan.back
  /\ scan' = NoScan
  /\ UNCHANGED <<entryVars, cacheBytes, cursor, microcode, budget, hostVars, cur,
                 prepared, rsv>>

-----------------------------------------------------------------------------
(* The execution loop.                                                     *)

(* The embedder acts between jobs, and from host functions and trap hooks, *)
(* which run between two instructions.                                     *)
HostTurn == pc \in {"host", "fetch"}

(* runtime_execute_job_internal up to the loop: the statistics are reset   *)
(* and the decision renewed, from a configuration the embedder may have    *)
(* changed since.  A host function may run a job of its own inside one.    *)
StartJob ==
  /\ HostTurn
  /\ Decide
  /\ \E force \in PrescanForced :
       IF force /\ ~ prescanned
       THEN /\ pc' = "prescan"
            /\ scan' = [NoScan EXCEPT !.back = "fetch"]
       ELSE /\ pc' = "fetch"
            /\ UNCHANGED scan
  /\ UNCHANGED <<entryVars, cacheVars, hostVars, cur, prepared, rsv>>

(* Decode and runtime_jit_record_opcode, for instruction i of f. *)
Fetch(f, i) ==
  /\ pc = "fetch"
  /\ i \in Instrs(f)
  /\ Record(f, i)
  /\ Rise
  /\ cur' = [fn |-> f, at |-> i, hot |-> FALSE]
  /\ pc' = "maybe"
  /\ UNCHANGED <<program, ready, spilled, programBytes, cacheVars, hostVars,
                 prepared, scan, rsv>>

(* The job returns, or a decode or a trap ends it.  The end of a job inside*)
(* another one changes nothing: the loop of the other goes on.             *)
EndJob ==
  /\ pc = "fetch"
  /\ pc' = "host"
  /\ UNCHANGED <<entryVars, cacheVars, microcode, budget, hostVars, loopVars>>

(* runtime_jit_maybe_prepare: a spilled program is loaded back. *)
MaybeLoad ==
  /\ pc = "maybe"
  /\ microcode
  /\ spilled[cur.fn]
  /\ Load(cur.fn, "lookup", "prepare")
  /\ UNCHANGED <<entryVars, cacheVars, microcode, budget, hostVars, cur, prepared,
                 scan>>

MaybeSkip ==
  /\ pc = "maybe"
  /\ ~ (microcode /\ spilled[cur.fn] /\ LoadPossible(cur.fn))
  /\ pc' = IF microcode THEN "prepare" ELSE "lookup"
  /\ UNCHANGED <<entryVars, cacheVars, microcode, budget, hostVars, loopVars>>

(* The rest of runtime_jit_maybe_prepare: prepare again whenever more has  *)
(* been recorded than is prepared.                                         *)
Prepare ==
  LET f == cur.fn IN
  /\ pc = "prepare"
  /\ IF ready[f] /\ Len(program[f]) = Len(recorded[f])
     THEN pc' = "lookup" /\ UNCHANGED rsv
     ELSE Reserve(f, <<>>, Chunk(f) * OpBytes, "prepare", "lookup", "lookup")
  /\ UNCHANGED <<entryVars, cacheVars, microcode, budget, hostVars, cur, prepared,
                 scan>>

(* Defect: the budget is compared with what is there already.              *)
BugFitsWithoutNeed == budget = 0 \/ rsv.need = 0 \/ cacheBytes <= budget

(* Defect: the function room is made for is not protected.                 *)
BugVictimUnprotected(f) == ready[f] /\ program[f] # <<>>

(* runtime_jit_cache_reserve_bytes.  Room is found at once, or by evicting *)
(* programs round robin, one at a time, at most one turn of the table.     *)
Fits == \/ budget = 0
        \/ rsv.need = 0
        \/ cacheBytes + rsv.need <= budget

Victim(f) == f # rsv.fn /\ ready[f] /\ program[f] # <<>>

(* Defect: the cursor runs off the table.                                  *)
BugEvictStepNoWrap ==
  /\ pc = "reserve"
  /\ ~ Fits
  /\ rsv.need <= budget
  /\ rsv.attempts > 0
  /\ cursor' = cursor + 1
  /\ rsv' = [rsv EXCEPT !.attempts = @ - 1]
  /\ IF Victim(cursor)
     THEN Evict(cursor)
     ELSE UNCHANGED <<program, ready, spilled, programBytes, cacheBytes, store>>
  /\ UNCHANGED <<recorded, prescanned, microcode, budget, hooks, pc, cur, prepared,
                 scan>>

(* Defect: an entry that cannot be evicted does not use up an attempt.     *)
BugEvictStepFreeSkip ==
  /\ pc = "reserve"
  /\ ~ Fits
  /\ rsv.need <= budget
  /\ rsv.attempts > 0
  /\ cursor' = (cursor + 1) % N
  /\ IF Victim(cursor)
     THEN Evict(cursor) /\ rsv' = [rsv EXCEPT !.attempts = @ - 1]
     ELSE UNCHANGED <<program, ready, spilled, programBytes, cacheBytes, store, rsv>>
  /\ UNCHANGED <<recorded, prescanned, microcode, budget, hooks, pc, cur, prepared,
                 scan>>

EvictStep ==
  /\ pc = "reserve"
  /\ ~ Fits
  /\ rsv.need <= budget
  /\ rsv.attempts > 0
  /\ cursor' = (cursor + 1) % N
  /\ rsv' = [rsv EXCEPT !.attempts = @ - 1]
  /\ IF Victim(cursor)
     THEN Evict(cursor)
     ELSE UNCHANGED <<program, ready, spilled, programBytes, cacheBytes, store>>
  /\ UNCHANGED <<recorded, prescanned, microcode, budget, hooks, pc, cur, prepared,
                 scan>>

(* The reservation failed: the program that asked for it is not installed. *)
ReserveFails ==
  /\ pc = "reserve"
  /\ ~ Fits
  /\ rsv.need > budget \/ rsv.attempts = 0
  /\ pc' = rsv.fail
  /\ rsv' = NoRsv
  /\ UNCHANGED <<entryVars, cacheVars, microcode, budget, hostVars, cur, prepared,
                 scan>>

(* runtime_jit_prepare_program after its reservations (the second asks for *)
(* the bytes the first one made room for).                                 *)
FinishPrepare ==
  /\ pc = "reserve"
  /\ Fits
  /\ rsv.kind = "prepare"
  /\ IF Preparable(rsv.fn)
     THEN Install(rsv.fn, ChunkProgram(rsv.fn))
     ELSE UNCHANGED <<program, ready, spilled, programBytes, cacheBytes>>
  /\ pc' = rsv.ok
  /\ rsv' = NoRsv
  /\ UNCHANGED <<recorded, cursor, prescanned, microcode, budget, hostVars, cur,
                 prepared, scan>>

(* runtime_jit_cache_load_entry after its reservation. *)
FinishLoad ==
  /\ pc = "reserve"
  /\ Fits
  /\ rsv.kind = "load"
  /\ Install(rsv.fn, rsv.incoming)
  /\ pc' = rsv.ok
  /\ rsv' = NoRsv
  /\ UNCHANGED <<recorded, cursor, prescanned, microcode, budget, hostVars, cur,
                 prepared, scan>>

(* A control operation is executed by the loop itself.  A branch to a loop *)
(* whose hits reach min_hot_loop_hits renews the decision and runs         *)
(* runtime_jit_maybe_prepare once more.                                    *)
ExecuteControl ==
  /\ pc = "lookup"
  /\ Body[cur.fn][cur.at] \in ControlOps
  /\ \/ pc' = "fetch" /\ cur' = NoInstr /\ UNCHANGED <<microcode, budget>>
     \/ /\ ~ cur.hot
        /\ Rise
        /\ cur' = [cur EXCEPT !.hot = TRUE]
        /\ pc' = "maybe"
  /\ UNCHANGED <<entryVars, cacheVars, hostVars, prepared, scan, rsv>>

(* An opcode without an operation ends the job, after it was recorded. *)
Unimplemented ==
  /\ pc = "lookup"
  /\ Body[cur.fn][cur.at] \in NoDescriptor \ ControlOps
  /\ pc' = "host"
  /\ cur' = NoInstr
  /\ UNCHANGED <<entryVars, cacheVars, microcode, budget, hostVars, prepared, scan,
                 rsv>>

(* runtime_jit_lookup_prepared: load a spilled program first. *)
Ordinary == Body[cur.fn][cur.at] \notin ControlOps \cup NoDescriptor

NeedsLoad(f) == microcode /\ ~ ready[f] /\ spilled[f] /\ hooks.load

LookupLoad ==
  /\ pc = "lookup"
  /\ Ordinary
  /\ NeedsLoad(cur.fn)
  /\ Load(cur.fn, "lookup", "dispatch")
  /\ UNCHANGED <<entryVars, cacheVars, microcode, budget, hostVars, cur, prepared,
                 scan>>

(* Defect: the program is indexed by address, not by recorded index.       *)
BugPreparedOpByAddress(f, i) ==
  IF microcode /\ ready[f] /\ i <= Len(program[f]) THEN <<program[f][i]>> ELSE <<>>

(* Defect: the bound of the program is not checked against its length but  *)
(* against what is recorded, and the last operation stands in.             *)
BugPreparedOpClamped(f, i) ==
  IF microcode /\ ready[f] /\ Recorded(f, i)
  THEN <<program[f][IF IndexOf(f, i) <= Len(program[f]) THEN IndexOf(f, i)
                    ELSE Len(program[f])]>>
  ELSE <<>>

(* The prepared operation at the instruction's recorded index, if any. *)
PreparedOp(f, i) ==
  IF microcode /\ ready[f] /\ Recorded(f, i) /\ IndexOf(f, i) <= Len(program[f])
  THEN <<program[f][IndexOf(f, i)]>>
  ELSE <<>>

Lookup ==
  /\ pc = "lookup"
  /\ Ordinary
  /\ ~ NeedsLoad(cur.fn)
  /\ prepared' = PreparedOp(cur.fn, cur.at)
  /\ pc' = "dispatch"
  /\ UNCHANGED <<entryVars, cacheVars, microcode, budget, hostVars, cur, scan, rsv>>

(* fa_jit_execute_prepared_op or fa_execute_op; an error ends the job. *)
Dispatch ==
  /\ pc = "dispatch"
  /\ prepared' = <<>>
  /\ pc' \in {"fetch", "host"}
  /\ cur' = NoInstr
  /\ UNCHANGED <<entryVars, cacheVars, microcode, budget, hostVars, scan, rsv>>

-----------------------------------------------------------------------------
(* The embedder's calls.                                                   *)

(* fa_Runtime_setSpillHooks *)
SetSpillHooks ==
  /\ HostTurn
  /\ hooks' \in [spill : BOOLEAN, load : BOOLEAN]
  /\ UNCHANGED <<entryVars, cacheVars, microcode, budget, store, pc, loopVars>>

(* Defect: without the early return for an entry that holds no program.    *)
BugSpillProgramAnyEntry(f) ==
  /\ HostTurn
  /\ Evict(f)
  /\ UNCHANGED <<recorded, cursor, prescanned, microcode, budget, hooks, pc,
                 loopVars>>

(* fa_Runtime_jitSpillProgram *)
SpillProgram(f) ==
  /\ HostTurn
  /\ ready[f] /\ program[f] # <<>>
  /\ Evict(f)
  /\ UNCHANGED <<recorded, cursor, prescanned, microcode, budget, hooks, pc,
                 loopVars>>

(* fa_Runtime_jitLoadProgram *)
LoadProgram(f) ==
  /\ HostTurn
  /\ ~ ready[f]
  /\ Load(f, pc, pc)
  /\ UNCHANGED <<entryVars, cacheVars, microcode, budget, hostVars, cur, prepared,
                 scan>>

-----------------------------------------------------------------------------
Host == \/ Attach
        \/ StartJob
        \/ SetSpillHooks
        \/ \E f \in Fns : SpillProgram(f) \/ LoadProgram(f)

Loop == \/ PrescanInstr \/ PrescanFails \/ PrescanNext \/ PrescanDone
        \/ MaybeLoad \/ MaybeSkip \/ Prepare
        \/ EvictStep \/ ReserveFails \/ FinishPrepare \/ FinishLoad
        \/ ExecuteControl \/ Unimplemented \/ LookupLoad \/ Lookup \/ Dispatch

Next == \/ Host
        \/ Loop
        \/ EndJob
        \/ \E f \in Fns : \E i \in Instrs(f) : Fetch(f, i)

(* The loop runs on the caller's thread and never yields inside an         *)
(* instruction, a scan or a reservation: only the embedder's calls and     *)
(* the choice of the next instruction are free.                            *)
Fairness == WF_vars(Loop)

Spec == Init /\ [][Next]_vars /\ Fairness

-----------------------------------------------------------------------------
(* The bytes of the programs of functions 0 .. n-1. *)
BytesBelow(b) ==
  LET Below[n \in 0 .. N] == IF n = 0 THEN 0 ELSE Below[n-1] + b[n-1]
  IN  Below
TotalBytes == BytesBelow(programBytes)[N]

(* The running total of runtime->jit_cache_bytes, updated by releases,     *)
(* installs and evictions in several functions, is the sum of what the     *)
(* entries account for themselves, at every step.                          *)
BytesAccounted == cacheBytes = TotalBytes

(* The four fields of an entry that say whether it holds a program agree,  *)
(* and an entry marked as spilled holds none.                              *)
EntryConsistent ==
  \A f \in Fns :
    /\ ready[f] <=> program[f] # <<>>
    /\ programBytes[f] = Len(program[f]) * OpBytes
    /\ spilled[f] => ~ ready[f]

(* The operation dispatched through the cache is the instruction the       *)
(* decoder has just decoded: recording order, preparation, spill, store    *)
(* and load never put another instruction's operation in its place.        *)
DispatchFaithful ==
  pc = "dispatch" /\ prepared # <<>> => prepared = <<Body[cur.fn][cur.at]>>

(* What the flag promises: the program of a function marked as spilled is  *)
(* in the embedder's store, and it is a prefix of what is recorded.        *)
IsPrefix(p, q) == /\ Len(p) <= Len(q)
                  /\ \A k \in 1 .. Len(p) : p[k] = q[k]
SpilledRecoverable ==
  \A f \in Fns : spilled[f] => store[f] # <<>> /\ IsPrefix(store[f], Opcodes(f))

(* A step that makes the cache larger leaves it within the budget in       *)
(* force (zero is no limit), whoever installs the program: the prescanner, *)
(* the loop or an explicit load.                                           *)
GrowthWithinBudget ==
  [][cacheBytes' > cacheBytes => budget' = 0 \/ cacheBytes' <= budget']_vars

(* Making room for a function never costs that function the program it     *)
(* already has: until the new one is installed the old one stays.          *)
RequesterKeepsProgram ==
  [][pc = "reserve" /\ program'[rsv.fn] # program[rsv.fn]
       => pc' # "reserve" /\ ready'[rsv.fn]]_vars

(* A function marked as spilled stays so until a program is installed for  *)
(* it again or the module is detached: a failed load, a failed reservation *)
(* or a change of hooks never forgets that there is a copy to load.        *)
SpilledUntilReloaded ==
  [][\A f \in Fns : spilled[f] /\ ~ spilled'[f]
       => ready'[f] \/ recorded'[f] = <<>>]_vars

(* The loop always comes back to the next instruction or to the embedder:  *)
(* no reservation sweeps the table for ever and no load is retried for     *)
(* ever inside one instruction.                                            *)
InstructionCompletes ==
  pc \in {"maybe", "prescan", "reserve"} ~> pc \in {"fetch", "host", "detached"}
=============================================================================
