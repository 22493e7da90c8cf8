-------------------------------- MODULE CApi --------------------------------
(***************************************************************************)
(* The C interface (slha-c/src/lib.rs, slha-c/src/elastic_ffi.rs) used by  *)
(* several threads.                                                        *)
(*                                                                         *)
(* A call has two steps that other threads can get between: the checks and *)
(* the registry lookup, after which the call holds the object by an Arc,   *)
(* and the rest, under the object's mutex. A function is the list of its   *)
(* checks in the order the code makes them, its effect and its output. A   *)
(* thread may pass NULL, a misaligned or foreign pointer, or any handle    *)
(* that was ever returned, released ones included. Memory-safety contracts *)
(* of the data pointers are the caller's.                                  *)
(***************************************************************************)
EXTENDS ElasticFfi

CONSTANTS
    Calls,       \* thread -> the functions it calls
    MaxModels,   \* bound: models ever loaded
    Budget,      \* hard budget of every cache
    Tiles,       \* tiles passed in: flags, finite and negative fields
    Counts,      \* element counts passed in
    MAX_TILES,   \* the defensive bound on counts
    MaxFaults    \* bound: wrong arguments in one call

ASSUME CApiAssumption ==
    /\ MaxModels \in Nat /\ Budget \in Nat /\ MAX_TILES \in Nat
    /\ Counts \subseteq Nat /\ MaxFaults \in Nat
    /\ Addresses \cap {NULL, "misaligned", "foreign"} = {}

VARIABLES
    mlive, mretired, \* the model registry, as live and retired
    models,          \* number of models ever loaded
    known,           \* history: <<handle, object>> of every handle returned
    call,            \* what each thread is in
    reply,           \* how its last call ended: status, output
    last_error       \* LAST_ERROR of each thread: is there a message?

apiVars == <<mlive, mretired, models, known, call, reply, last_error>>
vars == <<ffiVars, apiVars>>

Threads == DOMAIN Calls

ModelFunctions == {"prepare_query", "score_tile", "score_tiles", "encode_key",
                   "decode_latent", "decode_key", "model_dim"}
CacheFunctions == {"write", "write_dense_budget", "clear_slot", "clear",
                   "score_strided", "observe_scores", "demote_to",
                   "offload_to", "restore_slot", "promote_slot", "tier",
                   "resident_tile", "stats"}

Idle == [fn |-> "none", object |-> 0, meant |-> 0]
NoReply == [status |-> "OK", out |-> "old"]

Init ==
    /\ FfiInit /\ mlive = <<>> /\ mretired = {} /\ models = 0 /\ known = {}
    /\ call = [t \in Threads |-> Idle] /\ reply = [t \in Threads |-> NoReply]
    /\ last_error = [t \in Threads |-> FALSE]

-----------------------------------------------------------------------------
(* Checks: a sequence of <<what is wrong, status>>; the first one counts.   *)

FirstFailure(checks) ==
    LET wrong == SelectSeq(checks, LAMBDA c : c[1])
    IN IF wrong = <<>> THEN "OK" ELSE wrong[1][2]

CODEC_FLAGS == {"NF4", "MIXED", "TQ3", "MIX3"}
KNOWN_TILE_FLAGS == CODEC_FLAGS \cup {"WARM", "TQ3_NOCORR"}

validate_tile(tile) ==
    << <<tile.flags \ KNOWN_TILE_FLAGS # {}, "INVALID_TILE">>,
       <<Cardinality(tile.flags \cap CODEC_FLAGS) > 1, "INVALID_TILE">>,
       <<"TQ3_NOCORR" \in tile.flags /\ tile.flags \cap {"TQ3", "MIX3"} = {},
         "INVALID_TILE">>,
       <<~tile.finite, "NONFINITE">>,
       <<tile.negative, "INVALID_TILE">> >>

(* codec_from_int                                                           *)
codec_from_int(codec) == codec \in 0 .. 5

(* The arguments of a call; the wrong ones differ from Good.                *)
Good == [null |-> FALSE, finite |-> TRUE, result |-> TRUE, dim |-> TRUE,
         temperature |-> TRUE, codec |-> 5, stride |-> 1, n |-> 1,
         tile |-> [flags |-> {}, finite |-> TRUE, negative |-> FALSE]]

ArgSet ==
    {a \in [null : BOOLEAN, finite : BOOLEAN, result : BOOLEAN, dim : BOOLEAN,
            temperature : BOOLEAN, codec : {-1, 5, 6}, stride : {0, 1},
            n : Counts, tile : Tiles] :
        Cardinality({k \in DOMAIN a : a[k] # Good[k]}) <= MaxFaults}

Uses(f) ==
    CASE f = "process_tile" -> {"null", "tile", "finite", "result"}
      [] f = "prepare_query" -> {"dim", "finite", "result"}
      [] f = "score_tile" -> {"tile", "finite", "result"}
      [] f = "score_tiles" -> {"n", "tile", "finite", "result"}
      [] f = "encode_key" -> {"dim", "codec", "finite", "tile"}
      [] f \in {"decode_latent", "decode_key"} -> {"dim", "tile", "result"}
      [] f \in {"write", "write_dense_budget"} -> {"null", "tile"}
      [] f = "score_strided" -> {"n", "stride", "null", "finite"}
      [] f = "observe_scores" -> {"temperature", "n", "stride", "null", "finite"}
      [] f \in {"resident_tile", "stats"} -> {"null"}
      [] OTHER -> {}

ArgsOf ==
    [f \in ModelFunctions \cup CacheFunctions \cup {"process_tile"} |->
        {a \in ArgSet : \A k \in DOMAIN a : k \in Uses(f) \/ a[k] = Good[k]}]

-----------------------------------------------------------------------------
(* The functions on a model, after model_arc: checks, then the output       *)

process_tile(a) ==
    << <<a.null, "NULL">> >> \o validate_tile(a.tile)
        \o << <<~a.finite, "NONFINITE">>, <<~a.result, "NONFINITE">> >>

prepare_query(a) == << <<~a.dim, "DIMENSION">>, <<~a.finite, "NONFINITE">>,
                       <<~a.result, "NONFINITE">> >>

score_tile(a) ==
    validate_tile(a.tile) \o << <<~a.finite, "NONFINITE">>, <<~a.result, "NONFINITE">> >>

(* The loop validates, scores and writes tile by tile; only the last of n   *)
(* tiles is the wrong one here.                                             *)
score_tiles(a) ==
    << <<a.n > MAX_TILES, "DIMENSION">> >>
       \o (IF a.n = 0 THEN <<>>
           ELSE << <<~a.finite, "NONFINITE">> >> \o validate_tile(a.tile)
                \o << <<~a.result, "NONFINITE">> >>)

encode_key(a) ==
    << <<~a.dim, "DIMENSION">>, <<~codec_from_int(a.codec), "CODEC">>,
       <<~a.finite, "NONFINITE">> >> \o validate_tile(a.tile)

decode_latent(a) ==
    << <<~a.dim, "DIMENSION">> >> \o validate_tile(a.tile)
        \o << <<~a.result, "NONFINITE">> >>

decode_key(a) == decode_latent(a)

ModelChecks(f, a) ==
    CASE f = "prepare_query" -> prepare_query(a)
      [] f = "score_tile"    -> score_tile(a)
      [] f = "score_tiles"   -> score_tiles(a)
      [] f = "encode_key"    -> encode_key(a)
      [] f = "decode_latent" -> decode_latent(a)
      [] f = "decode_key"    -> decode_key(a)
      [] OTHER -> <<>>

(* What a failing or succeeding call leaves in the caller's buffer. Mutant: *)
(* the buffer is written before the result is validated.                    *)
ModelOut_early(f, a, status) == IF status = "OK" \/ ~a.result THEN "new" ELSE "old"

ModelOut(f, a, status) ==
    IF status = "OK" THEN IF f = "score_tiles" /\ a.n = 0 THEN "old" ELSE "new"
    ELSE IF f = "score_tiles" /\ a.finite /\ a.n \in 2 .. MAX_TILES THEN "partial"
    ELSE "old"

-----------------------------------------------------------------------------
(* The functions on a cache, after cache_arc                                *)

(* score_range is the stride of 1; slot numbers past usize are not in       *)
(* Slots and are an absent slot's failure with another code.                *)
Strided(s, a) == {s + a.stride * i : i \in 0 .. a.n - 1}

AllScoreable(c, s, a) == \A r \in Strided(s, a) : r \in Slots /\ Scoreable(c, r)

score_strided(a) ==
    << <<a.n > MAX_TILES, "DIMENSION">> >>
       \o (IF a.n = 0 THEN <<>>
           ELSE << <<a.n > 1 /\ a.stride = 0, "DIMENSION">>, <<a.null, "NULL">>,
                   <<~a.finite, "NONFINITE">> >>)

observe_scores(a) ==
    << <<~a.temperature, "DIMENSION">>, <<a.n > MAX_TILES, "DIMENSION">> >>
       \o (IF a.n = 0 THEN <<>>
           ELSE << <<a.n > 1 /\ a.stride = 0, "DIMENSION">>, <<a.null, "NULL">>,
                   <<~a.finite, "NONFINITE">> >>)

(* demote_to and offload_to: the caches they may leave. HOT slots are       *)
(* demoted first and WARM ones offloaded only if that is not enough; which  *)
(* ones is decided by importance.                                           *)
Offloaded(c, D) ==
    [c EXCEPT !.slot = [s \in Slots |-> IF s \in D THEN [@[s] EXCEPT !.tier = "COLD"]
                                        ELSE @[s]]]

JustEnough(D, release(_), target) ==
    /\ Resident(release(D)) <= target
    /\ D # {} => \E s \in D : Resident(release(D \ {s})) > target

OffloadedTo(c, target) ==
    LET release(D) == Offloaded(c, D)
    IN {release(D) : D \in {V \in SUBSET InTier(c, {"HOT", "WARM"}) :
                               JustEnough(V, release, target)}}

DemotedTo(c, target) ==
    LET release(D) == Demoted(c, D)
        hot == InTier(c, {"HOT"})
    IN IF Resident(Demoted(c, hot)) > target THEN OffloadedTo(Demoted(c, hot), target)
       ELSE {release(D) : D \in {V \in SUBSET hot : JustEnough(V, release, target)}}

(* The checks of the arguments, then those under the mutex.                 *)
ArgChecks(f, a) ==
    CASE f \in {"write", "write_dense_budget"} ->
            << <<a.null, "NULL">> >> \o validate_tile(a.tile)
      [] f = "score_strided"  -> score_strided(a)
      [] f = "observe_scores" -> observe_scores(a)
      [] f \in {"resident_tile", "stats"} -> << <<a.null, "NULL">> >>
      [] OTHER -> <<>>

Refused(f, c, s, a) ==
    CASE f = "write_dense_budget" ->
            << <<DenseWritten(c, s, <<>>, Budget) = {}, "DIMENSION">> >>
      [] f = "clear_slot"    -> << <<c.slot[s].tier = "ABSENT", "NOT_RESIDENT">> >>
      [] f = "score_strided" -> << <<~AllScoreable(c, s, a), "NOT_RESIDENT">> >>
      [] f = "restore_slot"  -> << <<~CanRestore(c, s), "NOT_RESIDENT">> >>
      [] f = "promote_slot"  -> << <<~CanPromote(c, s), "NOT_RESIDENT">> >>
      [] f = "resident_tile" -> << <<~Scoreable(c, s), "NOT_RESIDENT">> >>
      [] OTHER -> <<>>

(* What the cache may be after the function succeeded.                      *)
CacheAfter(f, c, s) ==
    CASE f = "write"              -> {Written(c, s, <<>>)}
      [] f = "write_dense_budget" -> DenseWritten(c, s, <<>>, Budget)
      [] f = "clear_slot"         -> {SlotCleared(c, s)}
      [] f = "clear"              -> {Cleared(c)}
      [] f = "demote_to"          -> DemotedTo(c, WARM_UNITS)
      [] f = "offload_to"         -> OffloadedTo(c, WARM_UNITS)
      [] f = "restore_slot"       -> {Restored(c, s)}
      [] f = "promote_slot"       -> {Promoted(c, s)}
      [] OTHER                    -> {c}

CacheOut(f, a) ==
    IF f \in {"resident_tile", "stats"} \/ (f = "score_strided" /\ a.n > 0)
    THEN "new" ELSE "old"

(* What the arguments can lead to: the status and what the rest depends on. *)
ModelOutcomes ==
    [f \in ModelFunctions |->
        {LET status == FirstFailure(ModelChecks(f, a))
         IN <<status, ModelOut(f, a, status)>> : a \in ArgsOf[f]}]

ArgOutcomes ==
    [f \in CacheFunctions |->
        {<<FirstFailure(ArgChecks(f, a)), [n |-> a.n, stride |-> a.stride]>> :
            a \in ArgsOf[f]}]

-----------------------------------------------------------------------------
(* A call                                                                   *)

(* ffi_status: the thread's message is cleared at the start and set on      *)
(* failure.                                                                 *)
Message(t, failed) == last_error' = [last_error EXCEPT ![t] = failed]

Return(t, status, out) ==
    /\ reply' = [reply EXCEPT ![t] = [status |-> status, out |-> out]]
    /\ call' = [call EXCEPT ![t] = Idle]
    /\ Message(t, status # "OK")

Hold(t, f, object, meant) ==
    /\ call' = [call EXCEPT ![t] = [fn |-> f, object |-> object, meant |-> meant]]
    /\ IF f = "tier" THEN UNCHANGED <<reply, last_error>>
       ELSE reply' = [reply EXCEPT ![t] = NoReply] /\ Message(t, FALSE)

(* A handle argument: a returned one, with the object it was returned for,  *)
(* or a pointer the library never returned.                                 *)
Handles == known \cup {<<NULL, 0>>, <<"misaligned", 0>>, <<"foreign", 0>>}

HandleError(h) == IF h[1] = NULL THEN "NULL" ELSE "INVALID_HANDLE"

(* model_arc and cache_arc. slha_elastic_cache_tier reports no status: it   *)
(* answers ABSENT for a handle that is not live, and touches no message.    *)
EnterModel(t, f, h, null) ==
    /\ call[t] = Idle /\ f \in ModelFunctions \cap Calls[t]
    /\ null => f # "model_dim"
    /\ IF null THEN Return(t, "NULL", "old")
       ELSE IF h[1] \notin DOMAIN mlive
       THEN Return(t, HandleError(h), "old")
       ELSE Hold(t, f, mlive[h[1]], h[2])
    /\ UNCHANGED <<ffiVars, mlive, mretired, models, known>>

EnterCache(t, f, h) ==
    /\ call[t] = Idle /\ f \in CacheFunctions \cap Calls[t]
    /\ IF h[1] \in DOMAIN live THEN Hold(t, f, live[h[1]], h[2])
       ELSE IF f = "tier" THEN UNCHANGED <<call, reply, last_error>>
       ELSE Return(t, HandleError(h), "old")
    /\ UNCHANGED <<ffiVars, mlive, mretired, models, known>>

ActModel(t) ==
    /\ call[t].fn \in ModelFunctions
    /\ \E r \in ModelOutcomes[call[t].fn] : Return(t, r[1], r[2])
    /\ UNCHANGED <<ffiVars, mlive, mretired, models, known>>

ActCache(t) ==
    LET f == call[t].fn
        c == objects[call[t].object]
    IN /\ f \in CacheFunctions \ {"tier"}
       /\ \E r \in ArgOutcomes[f], s \in Slots :
            LET status == IF r[1] # "OK" THEN r[1]
                          ELSE FirstFailure(Refused(f, c, s, r[2]))
            IN /\ Return(t, status, IF status = "OK" THEN CacheOut(f, r[2]) ELSE "old")
               /\ IF status = "OK"
                  THEN \E after \in CacheAfter(f, c, s) : Update(call[t].object, after)
                  ELSE UNCHANGED ffiVars
       /\ UNCHANGED <<mlive, mretired, models, known>>

ActTier(t) ==
    /\ call[t].fn = "tier"
    /\ call' = [call EXCEPT ![t] = Idle]
    /\ UNCHANGED <<ffiVars, mlive, mretired, models, known, reply, last_error>>

ProcessTile(t) ==
    /\ call[t] = Idle /\ "process_tile" \in Calls[t]
    /\ \E status \in {FirstFailure(process_tile(a)) : a \in ArgsOf["process_tile"]} :
         Return(t, status, IF status = "OK" THEN "new" ELSE "old")
    /\ UNCHANGED <<ffiVars, mlive, mretired, models, known>>

-----------------------------------------------------------------------------
(* Creation and release: one step each, under the registry's write lock     *)

Taken == DOMAIN live \cup DOMAIN mlive

(* slha_elastic_cache_new                                                   *)
CacheNew(t) ==
    /\ call[t] = Idle /\ "cache_new" \in Calls[t]
    /\ \E a \in Allocatable \ (DOMAIN mlive \cup mretired) :
         /\ register_cache(a, Budget)
         /\ known' = known \cup {<<a, Len(objects) + 1>>}
    /\ Return(t, "OK", "new")
    /\ UNCHANGED <<mlive, mretired, models>>

(* slha_elastic_cache_free: NULL is accepted.                               *)
CacheFree(t, h) ==
    /\ call[t] = Idle /\ "cache_free" \in Calls[t]
    /\ IF h[1] \in DOMAIN live
       THEN unregister_cache(h[1]) /\ Return(t, "OK", "old")
       ELSE /\ UNCHANGED ffiVars
            /\ Return(t, IF h[1] = NULL THEN "OK" ELSE "INVALID_HANDLE", "old")
    /\ UNCHANGED <<mlive, mretired, models, known>>

(* slha_weights_load: a NULL, non-UTF-8 or unreadable path gives NULL.      *)
WeightsLoad(t) ==
    /\ call[t] = Idle /\ "weights_load" \in Calls[t]
    /\ \/ /\ models < MaxModels
          /\ \E a \in Addresses \ (Taken \cup retired \cup mretired) :
               /\ mlive' = [b \in DOMAIN mlive \cup {a} |->
                              IF b = a THEN models + 1 ELSE mlive[b]]
               /\ known' = known \cup {<<a, models + 1>>}
          /\ models' = models + 1
          /\ Return(t, "OK", "new")
       \/ /\ \E status \in {"NULL", "UTF8", "IO"} :
               Return(t, status, "old")
          /\ UNCHANGED <<mlive, models, known>>
    /\ UNCHANGED <<ffiVars, mretired>>

(* slha_weights_release, slha_weights_free                                  *)
WeightsRelease(t, h) ==
    /\ call[t] = Idle /\ "weights_release" \in Calls[t]
    /\ IF h[1] \in DOMAIN mlive
       THEN /\ mlive' = [b \in DOMAIN mlive \ {h[1]} |-> mlive[b]]
            /\ mretired' = mretired \cup {h[1]}
            /\ Return(t, "OK", "old")
       ELSE /\ UNCHANGED <<mlive, mretired>>
            /\ Return(t, IF h[1] = NULL THEN "OK" ELSE "INVALID_HANDLE", "old")
    /\ UNCHANGED <<ffiVars, models, known>>

(* slha_shutdown: the one context, NULL, or something foreign. It has       *)
(* nothing to release. slha_clear_error ends the same way.                  *)
Shutdown(t) ==
    /\ call[t] = Idle /\ "shutdown" \in Calls[t]
    /\ \E status \in {"OK", "INVALID_HANDLE"} : Return(t, status, "old")
    /\ UNCHANGED <<ffiVars, mlive, mretired, models, known>>

Enter(t) ==
    \E h \in Handles :
       \/ \E f \in ModelFunctions, null \in BOOLEAN : EnterModel(t, f, h, null)
       \/ \E f \in CacheFunctions : EnterCache(t, f, h)
       \/ CacheFree(t, h) \/ WeightsRelease(t, h)

Next ==
    \E t \in Threads :
       \/ Enter(t) \/ ActModel(t) \/ ActCache(t) \/ ActTier(t) \/ ProcessTile(t)
       \/ CacheNew(t) \/ WeightsLoad(t) \/ Shutdown(t)

Spec == Init /\ [][Next]_vars

-----------------------------------------------------------------------------
(* "a freed handle can never become a valid handle for a later cache merely *)
(* because the allocator reused the same address": whatever other threads   *)
(* create and release meanwhile, a call that gets past the lookup works on  *)
(* the very object its handle was returned for. Nor do other threads show   *)
(* in its report: a thread has a message exactly when its own last call     *)
(* that reports a status failed.                                            *)
ActsOnItsOwnObject ==
    \A t \in Threads :
        /\ call[t].object = call[t].meant
        /\ call[t] = Idle => (last_error[t] <=> reply[t].status # "OK")

(* A call that fails changes no cache and no registry, and, with one        *)
(* exception, writes nothing to the caller's buffer: slha_score_tiles       *)
(* writes scores as it goes.                                                *)
FailureChangesNothing ==
    [][\A t \in Threads :
         reply'[t] # reply[t] /\ reply'[t].status # "OK" =>
            /\ UNCHANGED <<ffiVars, mlive, mretired>>
            /\ call[t].fn # "score_tiles" => reply'[t].out = "old"]_vars

(* "scores_out is not modified on failure" (slha.h), of every function.     *)
OutputUntouchedOnFailure ==
    \A t \in Threads : reply[t].status # "OK" => reply[t].out = "old"

=============================================================================
