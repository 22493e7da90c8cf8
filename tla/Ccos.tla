-------------------------------- MODULE Ccos --------------------------------
(***************************************************************************)
(* The CCOS elastic KV-cache of scirust/src/ccos.rs: an arena of tiles     *)
(* whose slots are HOT, WARM or COLD, a running byte counter, a stack of   *)
(* recycled slots, and an optional event log that receives evicted tiles.  *)
(*                                                                         *)
(* The cache is driven through &mut self, so operations do not overlap;    *)
(* enforce_budget is a loop of several steps here (pc, todo) so that every *)
(* intermediate state of its four phases is visible to the properties.     *)
(* A log append may fail at any time; the log itself is kept abstract (a   *)
(* sequence of records), module EventLog models its file.                  *)
(***************************************************************************)
EXTENDS Integers, Sequences, FiniteSets

CONSTANTS
    MaxSlots,      \* bound: length the arena Vec may grow to
    MaxSeq,        \* bound: insertions (next_seq is a u64 in the code)
    MaxImportance, \* bound: accumulated attention mass, in units
    MaxErrors,     \* bound: failed log appends
    TileInputs,    \* tiles a caller may insert
    Budgets,       \* budgets a cache may be built with
    Policies,      \* page-out policies a cache may be built with
    Evictions,     \* eviction policies a cache may be built with
    Durabilities,  \* ways a log may be attached
    PriorLogs      \* contents a log may have when it is attached

Slots == 0 .. MaxSlots - 1

Flags == {"WARM", "NOCORR"}

(* A tile, reduced to what the cache reads: codec, flag bits, sigma_E and   *)
(* position. Payload bytes follow the flags (WARM: residual zeroed).        *)
Tile == [codec : {"TQ3", "MIX3", "NIBBLE"}, flags : SUBSET Flags,
         sigma : Nat, position : Nat]

(* A log record as evict writes it.                                         *)
Record == [seq : Nat, slot : Nat, tile : Tile]

PageOutPolicy == {"LowestImpactFirst", "OldestFirst"}

(* sink_window of EvictionPolicy::Importance; Causal ignores it.            *)
EvictionPolicy == [kind : {"Causal", "Importance"}, sink_window : Nat]

EvictionDurability == {"BestEffort", "RequireDurable"}

ASSUME CcosAssumption ==
    /\ MaxSlots \in Nat /\ MaxSeq \in Nat
    /\ MaxImportance \in Nat /\ MaxErrors \in Nat
    /\ TileInputs \subseteq Tile
    /\ Budgets \subseteq Nat
    /\ Policies \subseteq PageOutPolicy
    /\ Evictions \subseteq EvictionPolicy
    /\ Durabilities \subseteq EvictionDurability
    /\ PriorLogs \subseteq Seq(Record)

VARIABLES
    tiles, state, seq, importance,   \* the arena, one entry per slot
    free,                            \* recycled slots, a stack
    budget, policy, eviction,        \* fixed by the constructor
    counter,                         \* live_bytes_counter
    next_seq,
    attached, log, durability,       \* event_log, eviction_durability
    log_errors, blocked,
    pc, todo,                        \* enforce_budget: phase, slots left
    ret,                             \* what enforce_budget returned
    owed                             \* history: seqs the log answers for

arenaVars  == <<tiles, state, seq, importance>>
configVars == <<budget, policy, eviction>>
logVars    == <<attached, log, durability, log_errors, blocked>>
loopVars   == <<pc, todo, ret>>
vars == <<arenaVars, free, configVars, counter, next_seq, logVars, loopVars,
          owed>>

-----------------------------------------------------------------------------
(* Bytes                                                                    *)

HOT_BYTES  == 128
WARM_BYTES == 96

separable_corr_bytes(t) ==
    CASE t.codec = "TQ3"  -> 16
      [] t.codec = "MIX3" -> 14
      [] OTHER            -> 0

TileBytes(t, st) ==
    (IF st = "Hot" THEN HOT_BYTES ELSE WARM_BYTES)
        - (IF "NOCORR" \in t.flags THEN separable_corr_bytes(t) ELSE 0)

IsLive(s) == state[s] \in {"Hot", "Warm"}

slot_live_bytes(s) == IF IsLive(s) THEN TileBytes(tiles[s], state[s]) ELSE 0

EncodedState(t) == IF "WARM" \in t.flags THEN "Warm" ELSE "Hot"

SlotsIn(st) == {s \in Slots : state[s] = st}
LiveSlots   == {s \in Slots : IsLive(s)}

(* flags |= f                                                               *)
WithFlag(t, f) == [t EXCEPT !.flags = @ \cup {f}]

(* A separable correction plane that can still be dropped.                  *)
(* Mutant: a plane already dropped counts as one.                           *)
HasPlane_again(t) == separable_corr_bytes(t) > 0

HasPlane(t) == separable_corr_bytes(t) > 0 /\ "NOCORR" \notin t.flags

-----------------------------------------------------------------------------
(* Construction and log attachment                                          *)

EmptyTile == [codec |-> "NIBBLE", flags |-> {}, sigma |-> 0, position |-> 0]

Init ==
    /\ tiles = [s \in Slots |-> EmptyTile]
    /\ state = [s \in Slots |-> "Absent"]
    /\ seq = [s \in Slots |-> 0]
    /\ importance = [s \in Slots |-> 0]
    /\ free = <<>>
    /\ budget \in Budgets /\ policy \in Policies /\ eviction \in Evictions
    /\ counter = 0 /\ next_seq = 0
    /\ attached = FALSE /\ log = <<>> /\ durability = "BestEffort"
    /\ log_errors = 0 /\ blocked = 0
    /\ pc = "idle" /\ todo = {} /\ ret = "none"
    /\ owed = {}

Idle == pc = "idle"

(* attach_event_log (BestEffort) and attach_durable_event_log.              *)
Attach(d, l) ==
    /\ Idle
    /\ attached' = TRUE /\ log' = l /\ durability' = d
    /\ owed' = {seq[s] : s \in LiveSlots}
    /\ ret' = "none"
    /\ UNCHANGED <<arenaVars, free, configVars, counter, next_seq,
                   log_errors, blocked, pc, todo>>

-----------------------------------------------------------------------------
(* Insertion                                                                *)

(* The slot the next insertion takes: the top of the free stack, else the   *)
(* first index past the end of the arena.                                   *)
NextSlot(s) ==
    IF free # <<>> THEN s = free[Len(free)]
    ELSE state[s] = "Absent" /\ \A r \in Slots : r < s => state[r] # "Absent"

FreeAfterInsert ==
    IF free # <<>> THEN SubSeq(free, 1, Len(free) - 1) ELSE free

insert_with_state(t, st) ==
    /\ next_seq < MaxSeq
    /\ \E s \in Slots :
         /\ NextSlot(s)
         /\ tiles' = [tiles EXCEPT ![s] = t]
         /\ state' = [state EXCEPT ![s] = st]
         /\ seq' = [seq EXCEPT ![s] = next_seq]
         /\ importance' = [importance EXCEPT ![s] = 0]
    /\ free' = FreeAfterInsert
    /\ next_seq' = next_seq + 1
    /\ counter' = counter + TileBytes(t, st)
    /\ owed' = IF attached THEN owed \cup {next_seq} ELSE owed
    /\ ret' = "none"
    /\ UNCHANGED <<configVars, logVars, pc, todo>>

Insert(t) == Idle /\ insert_with_state(t, EncodedState(t))

(* fetch_by_seq: the newest record with that seq.                           *)
IsLatest(l, i, q) ==
    /\ i \in 1 .. Len(l)
    /\ l[i].seq = q
    /\ \A j \in 1 .. Len(l) : j > i => l[j].seq # q

Rehydrate(q) ==
    /\ Idle
    /\ attached
    /\ \E i \in 1 .. Len(log) :
         /\ IsLatest(log, i, q)
         /\ insert_with_state(log[i].tile, EncodedState(log[i].tile))

-----------------------------------------------------------------------------
(* Importance                                                               *)

(* Softmax mass is shared among the live slots the caller names: MassUnits  *)
(* units land on one slot, or are split evenly between two. The absolute    *)
(* values do not matter, only the order they induce.                        *)
MassUnits == 2

observe_scores(a, b) ==
    /\ Idle
    /\ {a, b} \subseteq LiveSlots
    /\ \A s \in {a, b} : importance[s] + MassUnits <= MaxImportance
    /\ importance' =
         IF a = b THEN [importance EXCEPT ![a] = @ + MassUnits]
         ELSE [importance EXCEPT ![a] = @ + 1, ![b] = @ + 1]
    /\ ret' = "none"
    /\ UNCHANGED <<tiles, state, seq, free, configVars, counter, next_seq,
                   logVars, pc, todo, owed>>

-----------------------------------------------------------------------------
(* The three rungs of the ladder. Each is called directly by a user of the  *)
(* cache, and by enforce_budget.                                            *)

page_out(s) ==
    IF state[s] = "Hot"
    THEN /\ tiles' = [tiles EXCEPT ![s] = WithFlag(@, "WARM")]
         /\ state' = [state EXCEPT ![s] = "Warm"]
         /\ counter' = counter - TileBytes(tiles[s], "Hot")
                               + TileBytes(tiles[s], "Warm")
    ELSE UNCHANGED <<tiles, state, counter>>

drop_correction(s) ==
    IF IsLive(s) /\ HasPlane(tiles[s])
    THEN /\ tiles' = [tiles EXCEPT ![s] = WithFlag(@, "NOCORR")]
         /\ counter' = counter - separable_corr_bytes(tiles[s])
    ELSE UNCHANGED <<tiles, counter>>

(* What the log answers to evict: "ok" appends the record, "err" leaves the *)
(* log as it was, "phantom" is append_durable failing to synchronise and    *)
(* then failing to truncate the record it had written. Without a log,       *)
(* nothing is written.                                                      *)
LogAnswers ==
    IF ~attached THEN {"none"}
    ELSE IF log_errors >= MaxErrors THEN {"ok"}
    ELSE IF durability = "BestEffort" THEN {"ok", "err"}
    ELSE {"ok", "err", "phantom"}

Failed(answer) == answer \in {"err", "phantom"}

(* Mutant: a durable append that failed does not stop the eviction.         *)
Refused_never(answer) == FALSE

Refused(answer) ==
    durability = "RequireDurable" /\ (Failed(answer) \/ ~attached)

ErrorsAfter(answer) == IF Failed(answer) THEN log_errors + 1 ELSE log_errors

evict_answered(s, answer) ==
    /\ log' = IF answer \in {"ok", "phantom"}
              THEN Append(log, [seq |-> seq[s], slot |-> s,
                                tile |-> tiles[s]])
              ELSE log
    /\ log_errors' = ErrorsAfter(answer)
    /\ IF Refused(answer)
       THEN /\ blocked' = blocked + 1
            /\ UNCHANGED <<state, free, counter>>
       ELSE /\ counter' = counter - slot_live_bytes(s)
            /\ state' = [state EXCEPT ![s] = "Cold"]
            /\ free' = Append(free, s)
            /\ UNCHANGED blocked

evict(s) ==
    IF IsLive(s)
    THEN \E answer \in LogAnswers : evict_answered(s, answer)
    ELSE UNCHANGED <<state, free, counter, log, log_errors, blocked>>

PageOut(s) ==
    /\ Idle /\ state[s] # "Absent"
    /\ page_out(s)
    /\ ret' = "none"
    /\ UNCHANGED <<seq, importance, free, configVars, next_seq, logVars,
                   pc, todo, owed>>

DropCorrection(s) ==
    /\ Idle /\ state[s] # "Absent"
    /\ drop_correction(s)
    /\ ret' = "none"
    /\ UNCHANGED <<state, seq, importance, free, configVars, next_seq,
                   logVars, pc, todo, owed>>

Evict(s) ==
    /\ Idle
    /\ evict(s)
    /\ ret' = "none"
    /\ UNCHANGED <<tiles, seq, importance, configVars, next_seq, attached,
                   durability, pc, todo, owed>>

-----------------------------------------------------------------------------
(* enforce_budget                                                           *)

(* slots_in_paging_order: by sigma_E with ties by slot (the sort is         *)
(* stable), or by age.                                                      *)
PagesBefore(a, b) ==
    IF policy = "LowestImpactFirst"
    THEN \/ tiles[a].sigma < tiles[b].sigma
         \/ tiles[a].sigma = tiles[b].sigma /\ a < b
    ELSE seq[a] < seq[b]

IsSink(s) == tiles[s].position < eviction.sink_window

(* Mutant: sinks are compared the wrong way round.                          *)
SinkOrder_swapped(a, b) == IsSink(a)

SinkOrder(a, b) == IsSink(b)

EvictsBefore(a, b) ==
    IF eviction.kind = "Causal" THEN seq[a] < seq[b]
    ELSE IF IsSink(a) # IsSink(b) THEN SinkOrder(a, b)
    ELSE IF importance[a] # importance[b] THEN importance[a] < importance[b]
    ELSE seq[a] < seq[b]

WithinBudget == counter <= budget

Return(value) ==
    /\ pc' = "idle" /\ todo' = {} /\ ret' = value

EnforceBudget ==
    /\ Idle
    /\ IF WithinBudget
       THEN Return("true")
       ELSE pc' = "dropHot" /\ todo' = SlotsIn("Hot") /\ ret' = "none"
    /\ UNCHANGED <<arenaVars, free, configVars, counter, next_seq, logVars,
                   owed>>

(* The check at the head of every loop body.                                *)
EnforceReturn ==
    /\ pc # "idle" /\ todo # {}
    /\ WithinBudget
    /\ Return("true")
    /\ UNCHANGED <<arenaVars, free, configVars, counter, next_seq, logVars,
                   owed>>

(* One turn of a phase's loop, on slot s: the slots that come sooner in the *)
(* phase's order are already done.                                          *)
LoopBody(phase, s, sooner) ==
    /\ pc = phase /\ s \in todo
    /\ sooner \cap todo = {}
    /\ ~WithinBudget
    /\ todo' = todo \ {s}
    /\ UNCHANGED <<pc, ret>>

EnforceDrop(phase, s) ==
    /\ LoopBody(phase, s, {t \in Slots : PagesBefore(t, s)})
    /\ drop_correction(s)
    /\ UNCHANGED <<state, seq, importance, free, configVars, next_seq,
                   logVars, owed>>

EnforcePage(s) ==
    /\ LoopBody("page", s, {t \in Slots : PagesBefore(t, s)})
    /\ page_out(s)
    /\ UNCHANGED <<seq, importance, free, configVars, next_seq, logVars,
                   owed>>

EnforceEvict(s) ==
    /\ LoopBody("evict", s, {t \in Slots : EvictsBefore(t, s)})
    /\ evict(s)
    /\ UNCHANGED <<tiles, seq, importance, configVars, next_seq, attached,
                   durability, owed>>

(* The phase after this one, and the slots a phase lists when it begins.    *)
(* Mutant: the third phase, planes of WARM tiles, is left out.              *)
PhaseAfter_skip == [dropHot |-> "page", page |-> "evict"]

(* Mutant: the soft phases repeat until the footprint fits.                 *)
PhaseAfter_repeat ==
    [dropHot |-> "page", page |-> "dropWarm", dropWarm |-> "page"]

PhaseAfter ==
    [dropHot |-> "page", page |-> "dropWarm", dropWarm |-> "evict"]

SlotsOf(phase) ==
    CASE phase = "page"     -> SlotsIn("Hot")
      [] phase = "dropWarm" -> SlotsIn("Warm")
      [] phase = "evict"    -> LiveSlots

(* A loop has run out of slots.                                             *)
NextPhase ==
    /\ pc \in DOMAIN PhaseAfter /\ todo = {}
    /\ pc' = PhaseAfter[pc] /\ todo' = SlotsOf(PhaseAfter[pc])
    /\ ret' = ret
    /\ UNCHANGED <<arenaVars, free, configVars, counter, next_seq, logVars,
                   owed>>

EnforceEnd ==
    /\ pc = "evict" /\ todo = {}
    /\ Return(IF WithinBudget THEN "true" ELSE "false")
    /\ UNCHANGED <<arenaVars, free, configVars, counter, next_seq, logVars,
                   owed>>

EnforceStep ==
    \/ EnforceReturn
    \/ \E s \in Slots :
         \/ \E phase \in {"dropHot", "dropWarm"} : EnforceDrop(phase, s)
         \/ EnforcePage(s)
         \/ EnforceEvict(s)
    \/ NextPhase
    \/ EnforceEnd

-----------------------------------------------------------------------------
Next ==
    \/ \E d \in Durabilities, l \in PriorLogs : Attach(d, l)
    \/ \E t \in TileInputs : Insert(t)
    \/ \E q \in 0 .. MaxSeq : Rehydrate(q)
    \/ \E a, b \in Slots : observe_scores(a, b)
    \/ \E s \in Slots : PageOut(s) \/ DropCorrection(s) \/ Evict(s)
    \/ EnforceBudget
    \/ EnforceStep

(* A call of enforce_budget that has begun runs to its return.              *)
Fairness == WF_vars(EnforceStep)

Spec == Init /\ [][Next]_vars /\ Fairness

-----------------------------------------------------------------------------
(* Properties                                                               *)

Phases == {"idle", "dropHot", "page", "dropWarm", "evict"}

(* The shape of ElasticKvCache. counter is a usize: that it stays in Nat    *)
(* says no subtraction of the code underflows.                              *)
TypeOK ==
    /\ tiles \in [Slots -> Tile]
    /\ state \in [Slots -> {"Absent", "Hot", "Warm", "Cold"}]
    /\ seq \in [Slots -> Nat]
    /\ importance \in [Slots -> Nat]
    /\ free \in Seq(Slots)
    /\ budget \in Nat /\ policy \in PageOutPolicy
    /\ eviction \in EvictionPolicy
    /\ counter \in Nat /\ next_seq \in Nat
    /\ attached \in BOOLEAN /\ log \in Seq(Record)
    /\ durability \in EvictionDurability
    /\ log_errors \in Nat /\ blocked \in Nat
    /\ pc \in Phases /\ todo \subseteq Slots
    /\ ret \in {"none", "true", "false"}
    /\ owed \subseteq Nat

DroppedPlanes(codec) ==
    {s \in LiveSlots : tiles[s].codec = codec /\ "NOCORR" \in tiles[s].flags}

(* The footprint by its definition: what a packed store of the live tiles   *)
(* would occupy.                                                            *)
Footprint ==
    HOT_BYTES * Cardinality(SlotsIn("Hot"))
        + WARM_BYTES * Cardinality(SlotsIn("Warm"))
        - 16 * Cardinality(DroppedPlanes("TQ3"))
        - 14 * Cardinality(DroppedPlanes("MIX3"))

(* live_bytes() is the footprint after any sequence of insertions,          *)
(* degradations, evictions and rehydrations: the running counter, which no  *)
(* operation recomputes, never drifts from the arena.                       *)
BytesExact == counter = Footprint

(* The recycling stack holds each COLD slot exactly once and nothing else,  *)
(* so an insertion never overwrites a live tile and no slot leaks.          *)
FreeIsCold ==
    /\ \A i \in 1 .. Len(free) : state[free[i]] = "Cold"
    /\ \A i, j \in 1 .. Len(free) : free[i] = free[j] => i = j
    /\ \A s \in SlotsIn("Cold") : \E i \in 1 .. Len(free) : free[i] = s

(* The logical state of a live slot is the one its tile encodes, also for   *)
(* tiles that came back from the log: a tile whose residual was zeroed is   *)
(* never advertised (and accounted) as HOT.                                 *)
StateMatchesTile == \A s \in LiveSlots : state[s] = EncodedState(tiles[s])

(* enforce_budget returning true means the real footprint fits the budget.  *)
EnforceMeetsBudget == ret = "true" => Footprint <= budget

(* enforce_budget returning false means it had nothing left to try: a       *)
(* durable log refused evictions, and every remaining tile is WARM without  *)
(* a correction plane.                                                      *)
EnforceFailsOnlyBlocked ==
    ret = "false" =>
        /\ durability = "RequireDurable" /\ blocked > 0
        /\ LiveSlots # {}
        /\ \A s \in LiveSlots : state[s] = "Warm" /\ ~HasPlane(tiles[s])

(* What each phase of enforce_budget has established when it is reached.    *)
PhaseInv ==
    /\ pc = "idle" => todo = {}
    /\ pc # "idle" => ret = "none"
    /\ pc = "dropHot" =>
          \A s \in SlotsIn("Hot") \ todo : ~HasPlane(tiles[s])
    /\ pc = "page" =>
          todo = SlotsIn("Hot") /\ \A s \in todo : ~HasPlane(tiles[s])
    /\ pc = "dropWarm" =>
          /\ SlotsIn("Hot") = {}
          /\ \A s \in SlotsIn("Warm") \ todo : ~HasPlane(tiles[s])
    /\ pc = "evict" =>
          /\ \A s \in LiveSlots : state[s] = "Warm" /\ ~HasPlane(tiles[s])
          /\ \/ LiveSlots \subseteq todo
             \/ durability = "RequireDurable" /\ blocked > 0

(* "Strictly increasing harshness": inside enforce_budget no tile is paged  *)
(* out while a HOT tile keeps its correction plane, and none is evicted     *)
(* while any tile is HOT or keeps its plane.                                *)
Harshness ==
    [][ /\ pc = "page" /\ state' # state =>
             \A s \in SlotsIn("Hot") : ~HasPlane(tiles[s])
        /\ pc = "evict" /\ state' # state =>
             \A s \in LiveSlots : state[s] = "Warm" /\ ~HasPlane(tiles[s])
      ]_vars

(* The ladder only degrades: a tile that stays in its slot (same seq) never *)
(* regains its residual or its correction plane, and leaves COLD only by    *)
(* being replaced under a new seq.                                          *)
OnlyDegrades ==
    [][\A s \in Slots : IsLive(s) /\ seq'[s] = seq[s] =>
           /\ tiles[s].flags \subseteq tiles'[s].flags
           /\ state[s] = "Warm" => state'[s] # "Hot"]_vars

(* An eviction for budget drops an attention sink only when nothing else    *)
(* remains.                                                                 *)
SinksLast ==
    [][pc = "evict" /\ eviction.kind = "Importance" =>
          \A s \in LiveSlots : state'[s] = "Cold" /\ IsSink(s) =>
              \A r \in LiveSlots : IsSink(r)]_vars

Recorded(q) == \E i \in 1 .. Len(log) : log[i].seq = q

LiveSeqs == {seq[s] : s \in LiveSlots}

Lost == {q \in owed : q \notin LiveSeqs /\ ~Recorded(q)}

(* Under a durable log every tile inserted or live since the log was        *)
(* attached is still live or is in the log; and while its COLD slot is not  *)
(* recycled the newest record of its seq is the tile exactly as it was      *)
(* evicted, whatever failed attempts or earlier runs wrote before it. Under *)
(* a best-effort log every tile that is gone is accounted for by a counted  *)
(* append error that did not block its eviction.                            *)
DurableLosesNothing ==
    /\ durability = "RequireDurable" =>
          /\ Lost = {}
          /\ \A s \in SlotsIn("Cold") : seq[s] \in owed =>
                \E i \in 1 .. Len(log) :
                    IsLatest(log, i, seq[s]) /\ log[i].tile = tiles[s]
    /\ attached => Cardinality(Lost) <= log_errors - blocked

=============================================================================
