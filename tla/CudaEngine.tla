----------------------------- MODULE CudaEngine -----------------------------
(***************************************************************************)
(* The CUDA engine (slhav2-vram, src/backends/cuda.rs): contexts, device   *)
(* allocations, modules, functions and streams as reference-counted Rust   *)
(* objects over the handles of the driver, and the checks every copy and   *)
(* every launch makes before it hands pointers to the driver.              *)
(*                                                                         *)
(* The driver is external: its contexts, the one that is current on the    *)
(* thread, its memory and its modules. Any of its calls may fail, and then *)
(* has no effect. The engine is neither Send nor Sync, so calls follow one *)
(* another. Lengths are in units: a score and a query plane take one, a    *)
(* tile two, and a usize goes up to USIZE_MAX.                             *)
(***************************************************************************)
EXTENDS Integers, FiniteSets

CONSTANTS
    MaxContexts,   \* bound: engines created in a behaviour
    MaxObjects,    \* bound: allocations, modules and streams created
    Lengths,       \* lengths callers allocate
    Offsets,       \* offsets callers pass
    USIZE_MAX

ASSUME CudaAssumption == Lengths \subseteq Nat /\ Offsets \subseteq Nat

VARIABLES
    contexts,    \* contexts made so far
    made,        \* allocations, modules and streams made so far
    live,        \* driver: the contexts that exist
    current,     \* driver: the context current on the thread, 0 if none
    mem,         \* driver: the allocations that no cuMemFree has released
    loaded,      \* driver: the modules, each with the context it is in
    objects,     \* the Rust objects that are alive
    backing,     \* CUDA_BACKING_ALLOCATIONS
    touched      \* the ranges that the last call handed to the driver

cudaVars == <<contexts, made, live, current, mem, loaded, objects, backing, touched>>

TILE == 2
SCORE == 1
QUERY == 1

CudaInit ==
    /\ contexts = 0 /\ made = 0
    /\ live = {} /\ current = 0 /\ mem = {} /\ loaded = {}
    /\ objects = {} /\ backing = 0 /\ touched = {}

(* owner is the context the object keeps an Rc of, at the context that was  *)
(* current when the driver made it.                                         *)
Object(kind, id, owner, at, len) ==
    [kind |-> kind, id |-> id, owner |-> owner, at |-> at, len |-> len]

Alive(kind) == {o \in objects : o.kind = kind}

-----------------------------------------------------------------------------
(* Making objects                                                           *)

(* CudaEngine::new: the new context becomes the current one.                *)
NewEngine ==
    /\ contexts < MaxContexts
    /\ contexts' = contexts + 1
    /\ live' = live \cup {contexts'} /\ current' = contexts'
    /\ objects' = objects \cup {Object("engine", 0, contexts', contexts', 0)}
    /\ touched' = {}
    /\ UNCHANGED <<made, mem, loaded, backing>>

(* A call that makes an object for engine e, whose context becomes current  *)
(* where the call says so.                                                  *)
Make(object, cur) ==
    /\ made < MaxObjects
    /\ made' = made + 1
    /\ current' = cur
    /\ objects' = objects \cup {object}
    /\ touched' = {}
    /\ UNCHANGED <<contexts, live>>

CountAllocation(ok) == backing' = IF ok THEN backing + 1 ELSE backing

cuda_allocate(e, len) ==
    LET a == Object("alloc", made + 1, e.owner, e.owner, len)
    IN \/ /\ Make(a, e.owner)
          /\ mem' = mem \cup {a}
          /\ CountAllocation(TRUE)
          /\ UNCHANGED loaded
       \/ /\ current' = e.owner /\ touched' = {}    \* cuMemAlloc fails
          /\ CountAllocation(FALSE)
          /\ UNCHANGED <<contexts, made, live, mem, loaded, objects>>

NewStream(e) ==
    /\ Make(Object("stream", made + 1, e.owner, e.owner, 0), e.owner)
    /\ UNCHANGED <<mem, loaded, backing>>

(* load_ptx does not make its engine's context current: the module is       *)
(* loaded in whatever context is.                                           *)
load_ptx(e) ==
    /\ current # 0
    /\ Make(Object("module", made + 1, e.owner, current, 0), current)
    /\ loaded' = loaded \cup {[id |-> made + 1, ctx |-> current]}
    /\ UNCHANGED <<mem, backing>>

get_function(m) ==
    /\ \E x \in loaded : x.id = m.id
    /\ objects' = objects \cup {Object("function", m.id, m.owner, m.at, 0)}
    /\ touched' = {}
    /\ UNCHANGED <<contexts, made, live, current, mem, loaded, backing>>

-----------------------------------------------------------------------------
(* Drops                                                                    *)

(* The objects that keep an Rc of context c.                                *)
Holders(c, objs) == {o \in objs : o.owner = c}

(* A module lives until the caller's handle and its functions are gone.     *)
ModuleGoes(o, objs) ==
    /\ o.kind \in {"module", "function"}
    /\ ~ \E x \in objs : x.kind \in {"module", "function"} /\ x.id = o.id

(* What is loaded once o is dropped: cuModuleUnload takes the handle's own  *)
(* module, and fails for one of another context.                            *)
Unloaded(o, objs) ==
    IF ModuleGoes(o, objs) THEN loaded \ {[id |-> o.id, ctx |-> o.owner]} ELSE loaded

(* The Drop of each kind of object, and, with the last Rc of the context,   *)
(* the Drop of CudaInner: what is in the context goes with it, and the      *)
(* driver makes another context current, or none.                           *)
Drop(o) ==
    LET objs  == objects \ {o}
        cur   == IF o.kind \in {"alloc", "stream"} \/ ModuleGoes(o, objs)
                 THEN o.owner ELSE current
        ended == Holders(o.owner, objs) = {}
    IN /\ objects' = objs
       /\ live' = IF ended THEN live \ {o.owner} ELSE live
       /\ current' \in IF ended /\ cur = o.owner THEN live' \cup {0} ELSE {cur}
       /\ loaded' = {x \in Unloaded(o, objs) : x.ctx \in live'}
       /\ touched' = {}
       /\ UNCHANGED <<contexts, made>>

(* Mutant: a failed cuMemFree is counted as a free.                         *)
CountFree_always(freed) == backing' = backing - 1

CountFree(freed) == backing' = IF freed THEN backing - 1 ELSE backing

DropAllocation(a) ==
    /\ Drop(a)
    /\ \E freed \in BOOLEAN :
         /\ mem' = IF freed THEN mem \ {a} ELSE mem
         /\ CountFree(freed)

DropOther(o) == Drop(o) /\ UNCHANGED <<mem, backing>>

-----------------------------------------------------------------------------
(* Copies and launches                                                      *)

(* checked_add(offset, need) <= len.                                        *)
InRange(offset, need, len) ==
    /\ offset + need <= USIZE_MAX
    /\ offset + need <= len

(* ensure_allocation_owner, ensure_function_owner and ensure_stream_owner.  *)
Owned(e, o) == o.owner = e.owner

ByteRange(a, offset, need) == [alloc |-> a, from |-> offset, to |-> offset + need]

(* copy_to_device, copy_to_host and their _at forms.                        *)
Copy(e, a, offset, need) ==
    /\ Owned(e, a) /\ InRange(offset, need, a.len)
    /\ current' = e.owner
    /\ touched' = {ByteRange(a, offset, need)}
    /\ UNCHANGED <<contexts, made, live, mem, loaded, objects, backing>>

(* What the kernel reads and writes for n tiles at one offset of each plane *)
Planes(q, s, t, r, offset, n) ==
    {ByteRange(q, offset, QUERY), ByteRange(s, offset, QUERY),
     ByteRange(t, offset, n * TILE), ByteRange(r, offset, n * SCORE)}

Launchable(e, q, s, t, r, offset, n, f) ==
    /\ n > 0
    /\ \A o \in {q, s, t, r, f} : Owned(e, o)
    /\ InRange(offset, QUERY, q.len) /\ InRange(offset, QUERY, s.len)
    /\ InRange(offset, n * TILE, t.len) /\ InRange(offset, n * SCORE, r.len)

(* score_tiles_at, and score_tiles at offset 0, launch in the context that  *)
(* is current; the driver refuses a function of another context.            *)
score_tiles_at(e, q, s, t, r, offset, n, f) ==
    /\ Launchable(e, q, s, t, r, offset, n, f)
    /\ [id |-> f.id, ctx |-> current] \in loaded
    /\ touched' = Planes(q, s, t, r, offset, n)
    /\ UNCHANGED <<contexts, made, live, current, mem, loaded, objects, backing>>

score_tiles_on_stream(e, q, s, t, r, n, f, stream) ==
    /\ Launchable(e, q, s, t, r, 0, n, f) /\ Owned(e, stream)
    /\ current' = e.owner
    /\ [id |-> f.id, ctx |-> e.owner] \in loaded
    /\ touched' = Planes(q, s, t, r, 0, n)
    /\ UNCHANGED <<contexts, made, live, mem, loaded, objects, backing>>

(* set_device, CudaStream::synchronize, and a call whose driver call fails  *)
(* once the context is set.                                                 *)
set_device(e) ==
    /\ current' = e.owner /\ touched' = {}
    /\ UNCHANGED <<contexts, made, live, mem, loaded, objects, backing>>

CudaNext ==
    \/ NewEngine
    \/ \E e \in Alive("engine") :
         \/ \E len \in Lengths : cuda_allocate(e, len)
         \/ NewStream(e)
         \/ load_ptx(e)
         \/ set_device(e)
         \/ \E a \in Alive("alloc"), offset \in Offsets, need \in Lengths :
              Copy(e, a, offset, need)
         \/ \E q, s, t, r \in Alive("alloc"), f \in Alive("function"), n \in 0 .. 1 :
              \/ \E offset \in Offsets : score_tiles_at(e, q, s, t, r, offset, n, f)
              \/ \E stream \in Alive("stream") :
                   score_tiles_on_stream(e, q, s, t, r, n, f, stream)
    \/ \E m \in Alive("module") : get_function(m)
    \/ \E a \in Alive("alloc") : DropAllocation(a)
    \/ \E o \in objects \ Alive("alloc") : DropOther(o)

CudaSpec == CudaInit /\ [][CudaNext]_cudaVars

-----------------------------------------------------------------------------
(* Properties                                                               *)

(* "so the backing allocation counter never desyncs from reality": the      *)
(* counter is the number of device allocations that exist, through failed   *)
(* allocations and failed frees.                                            *)
BackingCountExact == backing = Cardinality(mem)

(* Whatever order the caller drops things in, and however contexts are      *)
(* mixed: a context outlives every object made in it, and a module that was *)
(* loaded in its engine's context stays loaded as long as one of its        *)
(* functions can be launched.                                               *)
ContextOutlivesObjects ==
    /\ \A o \in objects : o.owner \in live
    /\ \A f \in Alive("function") :
         f.at = f.owner => [id |-> f.id, ctx |-> f.at] \in loaded

(* No copy and no kernel leaves the allocations it was given, none of which *)
(* has been freed, offsets next to the largest usize included.              *)
TouchesOwnMemory ==
    \A range \in touched :
        /\ range.to <= range.alloc.len
        /\ range.alloc \in mem /\ range.alloc.owner \in live

(* What the driver holds and what the objects own agree.                    *)
DriverStateOwned == BackingCountExact /\ ContextOutlivesObjects /\ TouchesOwnMemory

(* "The Rc ensures no allocations or modules outlive this destruction."     *)
ModulesDieBeforeContext ==
    \A o \in objects : o.kind \in {"module", "function"} =>
        \E x \in loaded : x.id = o.id

=============================================================================
