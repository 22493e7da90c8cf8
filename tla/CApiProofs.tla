----------------------------- MODULE CApiProofs -----------------------------
(***************************************************************************)
(* The two outer interfaces. The C interface, for any number of threads,   *)
(* caches, models and addresses, and any functions they call; and the MCP  *)
(* server, for any messages cut into any chunks.                           *)
(***************************************************************************)
EXTENDS CApi, McpServer, SetLemmas, SequenceTheorems, TLAPS

(* An address is of a live cache, a live model, a released cache or a       *)
(* released model, and of no two of them.                                   *)
OneUse ==
    /\ DOMAIN live \subseteq Addresses /\ DOMAIN mlive \subseteq Addresses
    /\ DOMAIN live \cap DOMAIN mlive = {} /\ retired \cap mretired = {}
    /\ (DOMAIN live \cup DOMAIN mlive) \cap (retired \cup mretired) = {}

Used == DOMAIN live \cup DOMAIN mlive \cup retired \cup mretired

(* A handle that was returned has had its address for good, and while it is *)
(* live the registry leads to its object.                                   *)
HandlesTrue ==
    \A h \in known :
        /\ h[1] \in Used
        /\ h[1] \in DOMAIN live => live[h[1]] = h[2]
        /\ h[1] \in DOMAIN mlive => mlive[h[1]] = h[2]

ThreadsTyped ==
    /\ DOMAIN call = Threads /\ call = [t \in Threads |-> call[t]]
    /\ DOMAIN reply = Threads /\ reply = [t \in Threads |-> reply[t]]
    /\ last_error \in [Threads -> BOOLEAN]

(* The message follows the reply in the middle of a call, too.              *)
OwnReports ==
    \A t \in Threads :
        /\ call[t].object = call[t].meant
        /\ last_error[t] <=> reply[t].status # "OK"

ApiInv == OneUse /\ HandlesTrue /\ ThreadsTyped /\ OwnReports

LEMMA ApiInitial == Init => ApiInv
<1> SUFFICES ASSUME Init PROVE ApiInv
  OBVIOUS
<1>1. OneUse /\ HandlesTrue
  BY DEF Init, FfiInit, OneUse, HandlesTrue, Used
<1>2. ThreadsTyped
  BY DEF Init, ThreadsTyped
<1>3. OwnReports
  BY DEF Init, OwnReports, Idle, NoReply
<1> QED BY <1>1, <1>2, <1>3 DEF ApiInv

(* How a call ends, and how it begins.                                      *)
LEMMA ReturnReports ==
    ASSUME ThreadsTyped, OwnReports, NEW t \in Threads, NEW status, NEW out,
           Return(t, status, out)
    PROVE  ThreadsTyped' /\ OwnReports'
<1>1. /\ reply' = [reply EXCEPT ![t] = [status |-> status, out |-> out]]
      /\ call' = [call EXCEPT ![t] = Idle]
      /\ last_error' = [last_error EXCEPT ![t] = status # "OK"]
  BY DEF Return, Message
<1>2. ThreadsTyped'
  BY <1>1 DEF ThreadsTyped
<1>3. ASSUME NEW u \in Threads
      PROVE  call'[u].object = call'[u].meant /\ (last_error'[u] <=> reply'[u].status # "OK")
  <2>1. CASE u = t
    BY <1>1, <2>1 DEF ThreadsTyped, Idle
  <2>2. CASE u # t
    <3>1. call'[u] = call[u] /\ reply'[u] = reply[u] /\ last_error'[u] = last_error[u]
      BY <1>1, <2>2 DEF ThreadsTyped
    <3> QED BY <3>1 DEF OwnReports
  <2> QED BY <2>1, <2>2
<1> QED BY <1>2, <1>3 DEF OwnReports

LEMMA HoldReports ==
    ASSUME ThreadsTyped, OwnReports, NEW t \in Threads, NEW f, NEW object,
           Hold(t, f, object, object)
    PROVE  ThreadsTyped' /\ OwnReports'
<1>1. call' = [call EXCEPT ![t] = [fn |-> f, object |-> object, meant |-> object]]
  BY DEF Hold
<1>2. \/ reply' = reply /\ last_error' = last_error
      \/ /\ reply' = [reply EXCEPT ![t] = NoReply]
         /\ last_error' = [last_error EXCEPT ![t] = FALSE]
  BY DEF Hold, Message
<1>3. ThreadsTyped'
  BY <1>1, <1>2 DEF ThreadsTyped
<1>4. ASSUME NEW u \in Threads
      PROVE  call'[u].object = call'[u].meant /\ (last_error'[u] <=> reply'[u].status # "OK")
  <2>1. call'[u].object = call'[u].meant
    BY <1>1 DEF ThreadsTyped, OwnReports
  <2>2. last_error'[u] <=> reply'[u].status # "OK"
    BY <1>2 DEF ThreadsTyped, OwnReports, NoReply
  <2> QED BY <2>1, <2>2
<1> QED BY <1>3, <1>4 DEF OwnReports

(* Steps that leave the registries alone.                                   *)
LEMMA SameRegistries ==
    ASSUME OneUse, HandlesTrue, UNCHANGED <<live, retired, mlive, mretired, known>>
    PROVE  OneUse' /\ HandlesTrue'
  BY DEF OneUse, HandlesTrue, Used

(* A pointer that the library never returned is in no registry.             *)
LEMMA LookupTrue ==
    ASSUME OneUse, HandlesTrue, NEW h \in Handles
    PROVE  /\ h[1] \in DOMAIN live => live[h[1]] = h[2]
           /\ h[1] \in DOMAIN mlive => mlive[h[1]] = h[2]
<1>1. CASE h \in known
  BY <1>1 DEF HandlesTrue
<1>2. CASE h \in {<<NULL, 0>>, <<"misaligned", 0>>, <<"foreign", 0>>}
  <2>1. h[1] \notin Addresses
    BY <1>2, CApiAssumption
  <2> QED BY <2>1 DEF OneUse
<1> QED BY <1>1, <1>2 DEF Handles

LEMMA EnterKeeps ==
    ASSUME ApiInv, NEW t \in Threads, NEW h \in Handles, NEW f, NEW null \in BOOLEAN,
           EnterModel(t, f, h, null) \/ EnterCache(t, f, h)
    PROVE  ApiInv'
<1>1. OneUse' /\ HandlesTrue'
  BY SameRegistries DEF ApiInv, EnterModel, EnterCache, ffiVars
<1>2. \/ \E status : Return(t, status, "old")
      \/ Hold(t, f, h[2], h[2])
      \/ UNCHANGED <<call, reply, last_error>>
  BY LookupTrue DEF ApiInv, EnterModel, EnterCache
<1>3. ThreadsTyped' /\ OwnReports'
  <2>1. CASE UNCHANGED <<call, reply, last_error>>
    BY <2>1 DEF ApiInv, ThreadsTyped, OwnReports
  <2> QED BY <1>2, <2>1, ReturnReports, HoldReports DEF ApiInv
<1> QED BY <1>1, <1>3 DEF ApiInv

LEMMA ActKeeps ==
    ASSUME ApiInv, NEW t \in Threads,
           ActModel(t) \/ ActCache(t) \/ ActTier(t) \/ ProcessTile(t) \/ Shutdown(t)
    PROVE  ApiInv'
<1>1. UNCHANGED <<live, retired, mlive, mretired, known>>
  BY DEF ActModel, ActCache, ActTier, ProcessTile, Shutdown, Update, ffiVars
<1>2. OneUse' /\ HandlesTrue'
  BY <1>1, SameRegistries DEF ApiInv
<1>3. CASE ActTier(t)
  <2>1. call' = [call EXCEPT ![t] = Idle] /\ reply' = reply /\ last_error' = last_error
    BY <1>3 DEF ActTier
  <2>2. ThreadsTyped'
    BY <2>1 DEF ApiInv, ThreadsTyped
  <2>3. \A u \in Threads : call'[u].object = call'[u].meant
    BY <2>1 DEF ApiInv, ThreadsTyped, OwnReports, Idle
  <2>4. OwnReports'
    BY <2>1, <2>3 DEF ApiInv, OwnReports
  <2> QED BY <1>2, <2>2, <2>4 DEF ApiInv
<1>4. CASE ~ActTier(t)
  <2>1. \E status, out : Return(t, status, out)
    <3>1. CASE ActModel(t)
      BY <3>1 DEF ActModel
    <3>2. CASE ActCache(t)
      BY <3>2 DEF ActCache
    <3>3. CASE ProcessTile(t)
      BY <3>3 DEF ProcessTile
    <3>4. CASE Shutdown(t)
      BY <3>4 DEF Shutdown
    <3> QED BY <1>4, <3>1, <3>2, <3>3, <3>4
  <2> QED BY <1>2, <2>1, ReturnReports DEF ApiInv
<1> QED BY <1>3, <1>4

(* An address given out is one that nothing had before.                     *)
LEMMA CacheNewKeeps ==
    ASSUME ApiInv, NEW t \in Threads, CacheNew(t)
    PROVE  ApiInv'
<1> DEFINE n == Len(objects) + 1
<1>1. PICK a \in Allocatable \ (DOMAIN mlive \cup mretired) :
         register_cache(a, Budget) /\ known' = known \cup {<<a, n>>}
  BY DEF CacheNew
<1>2. a \in Addresses /\ a \notin Used
  BY <1>1 DEF Allocatable, Used
<1>3. live' = [b \in DOMAIN live \cup {a} |-> IF b = a THEN n ELSE live[b]]
  BY <1>1 DEF register_cache
<1>4. UNCHANGED <<retired, mlive, mretired>>
  BY <1>1 DEF register_cache, CacheNew
<1> HIDE DEF n
<1>5. OneUse'
  BY <1>2, <1>3, <1>4 DEF ApiInv, OneUse, Used
<1>6. HandlesTrue'
  <2>1. ASSUME NEW h \in known
        PROVE  /\ h[1] \in Used'
               /\ h[1] \in DOMAIN live' => live'[h[1]] = h[2]
               /\ h[1] \in DOMAIN mlive' => mlive'[h[1]] = h[2]
    BY <1>2, <1>3, <1>4 DEF ApiInv, HandlesTrue, Used
  <2>2. /\ a \in Used' /\ a \in DOMAIN live' /\ live'[a] = n /\ a \notin DOMAIN mlive'
    BY <1>2, <1>3, <1>4 DEF Used
  <2>3. \A h \in known' : h \in known \/ (h[1] = a /\ h[2] = n)
    BY <1>1
  <2> QED BY <2>1, <2>2, <2>3 DEF HandlesTrue
<1>7. ThreadsTyped' /\ OwnReports'
  BY ReturnReports DEF ApiInv, CacheNew
<1> QED BY <1>5, <1>6, <1>7 DEF ApiInv

LEMMA WeightsLoadKeeps ==
    ASSUME ApiInv, NEW t \in Threads, WeightsLoad(t)
    PROVE  ApiInv'
<1>1. ThreadsTyped' /\ OwnReports'
  <2>1. \E status, out : Return(t, status, out)
    BY DEF WeightsLoad
  <2> QED BY <2>1, ReturnReports DEF ApiInv
<1>2. UNCHANGED <<live, retired, mretired>>
  BY DEF WeightsLoad, ffiVars
<1>3. CASE UNCHANGED <<mlive, known>>
  BY <1>1, <1>2, <1>3, SameRegistries DEF ApiInv
<1>4. CASE ~UNCHANGED <<mlive, known>>
  <2> DEFINE n == models + 1
  <2>1. PICK a \in Addresses \ (Taken \cup retired \cup mretired) :
           /\ mlive' = [b \in DOMAIN mlive \cup {a} |-> IF b = a THEN n ELSE mlive[b]]
           /\ known' = known \cup {<<a, n>>}
    BY <1>4 DEF WeightsLoad
  <2> HIDE DEF n
  <2>2. a \in Addresses /\ a \notin Used
    BY <2>1 DEF Taken, Used
  <2>3. OneUse'
    BY <1>2, <2>1, <2>2 DEF ApiInv, OneUse, Used
  <2>4. HandlesTrue'
    <3>1. ASSUME NEW h \in known
          PROVE  /\ h[1] \in Used'
                 /\ h[1] \in DOMAIN live' => live'[h[1]] = h[2]
                 /\ h[1] \in DOMAIN mlive' => mlive'[h[1]] = h[2]
      BY <1>2, <2>1, <2>2 DEF ApiInv, HandlesTrue, Used
    <3>2. a \in Used' /\ a \in DOMAIN mlive' /\ mlive'[a] = n /\ a \notin DOMAIN live'
      BY <1>2, <2>1, <2>2 DEF Used
    <3>3. \A h \in known' : h \in known \/ (h[1] = a /\ h[2] = n)
      BY <2>1
    <3> QED BY <3>1, <3>2, <3>3 DEF HandlesTrue
  <2> QED BY <1>1, <2>3, <2>4 DEF ApiInv
<1> QED BY <1>3, <1>4

(* Release moves an address from the live ones to the retired ones.         *)
LEMMA ReleaseKeeps ==
    ASSUME ApiInv, NEW t \in Threads, NEW h \in Handles,
           CacheFree(t, h) \/ WeightsRelease(t, h)
    PROVE  ApiInv'
<1>1. ThreadsTyped' /\ OwnReports'
  <2>1. \E status : Return(t, status, "old")
    BY DEF CacheFree, WeightsRelease
  <2> QED BY <2>1, ReturnReports DEF ApiInv
<1>2. CASE UNCHANGED <<live, retired, mlive, mretired, known>>
  BY <1>1, <1>2, SameRegistries DEF ApiInv
<1>3. CASE /\ h[1] \in DOMAIN live /\ live' = [b \in DOMAIN live \ {h[1]} |-> live[b]]
           /\ retired' = retired \cup {h[1]} /\ UNCHANGED <<mlive, mretired, known>>
  <2>1. OneUse'
    BY <1>3 DEF ApiInv, OneUse
  <2>2. HandlesTrue'
    BY <1>3 DEF ApiInv, HandlesTrue, Used
  <2> QED BY <1>1, <2>1, <2>2 DEF ApiInv
<1>4. CASE /\ h[1] \in DOMAIN mlive /\ mlive' = [b \in DOMAIN mlive \ {h[1]} |-> mlive[b]]
           /\ mretired' = mretired \cup {h[1]} /\ UNCHANGED <<live, retired, known>>
  <2>1. OneUse'
    BY <1>4 DEF ApiInv, OneUse
  <2>2. HandlesTrue'
    BY <1>4 DEF ApiInv, HandlesTrue, Used
  <2> QED BY <1>1, <2>1, <2>2 DEF ApiInv
<1> QED BY <1>2, <1>3, <1>4 DEF CacheFree, WeightsRelease, unregister_cache, ffiVars

LEMMA ApiStep == ApiInv /\ [Next]_vars => ApiInv'
<1> SUFFICES ASSUME ApiInv, [Next]_vars PROVE ApiInv'
  OBVIOUS
<1>1. CASE UNCHANGED vars
  BY <1>1 DEF vars, ffiVars, apiVars, ApiInv, OneUse, HandlesTrue, Used, ThreadsTyped, OwnReports
<1>2. ASSUME NEW t \in Threads, Enter(t) PROVE ApiInv'
  BY <1>2, EnterKeeps, ReleaseKeeps DEF Enter
<1>3. ASSUME NEW t \in Threads, CacheNew(t) \/ WeightsLoad(t) PROVE ApiInv'
  BY <1>3, CacheNewKeeps, WeightsLoadKeeps
<1> QED BY <1>1, <1>2, <1>3, ActKeeps DEF Next

(* Whatever the threads create and release meanwhile, a call works on the   *)
(* object its handle was returned for, and a thread's message is about its  *)
(* own last call.                                                           *)
THEOREM CallsOwnObject == Spec => []ActsOnItsOwnObject
<1>1. ApiInv => ActsOnItsOwnObject
  BY DEF ApiInv, OwnReports, ActsOnItsOwnObject
<1> QED BY <1>1, ApiInitial, ApiStep, PTL DEF Spec

-----------------------------------------------------------------------------
(* Failing calls                                                            *)

NothingChanged(t) ==
    /\ UNCHANGED <<ffiVars, mlive, mretired>>
    /\ call[t].fn # "score_tiles" => reply'[t].out = "old"

FailsCleanly ==
    \A t \in Threads :
        reply'[t] # reply[t] /\ reply'[t].status # "OK" => NothingChanged(t)

(* A thread's reply changes only when it returns.                           *)
LEMMA OneReturns ==
    ASSUME ThreadsTyped, NEW t \in Threads, NEW status, NEW out, Return(t, status, out)
    PROVE  /\ reply'[t] = [status |-> status, out |-> out]
           /\ \A u \in Threads : u # t => reply'[u] = reply[u]
  BY DEF ThreadsTyped, Return

LEMMA ReturnsCleanly ==
    ASSUME ThreadsTyped, NEW t \in Threads, NEW status, NEW out, Return(t, status, out),
           status # "OK" =>
              UNCHANGED <<ffiVars, mlive, mretired>>
              /\ (call[t].fn # "score_tiles" => out = "old")
    PROVE  FailsCleanly
<1>1. reply'[t] = [status |-> status, out |-> out]
  BY OneReturns
<1>2. \A u \in Threads : u # t => reply'[u] = reply[u]
  BY OneReturns
<1>3. reply'[t].status = status /\ reply'[t].out = out
  BY <1>1
<1> QED BY <1>2, <1>3 DEF FailsCleanly, NothingChanged

LEMMA StepFailsCleanly ==
    ASSUME ApiInv, NEW t \in Threads,
           \/ Enter(t) \/ ActModel(t) \/ ActCache(t) \/ ActTier(t) \/ ProcessTile(t)
           \/ CacheNew(t) \/ WeightsLoad(t) \/ Shutdown(t)
    PROVE  FailsCleanly
<1> USE DEF ApiInv
<1>1. CASE UNCHANGED reply
  BY <1>1 DEF FailsCleanly
<1>2. ASSUME NEW h \in Handles, NEW f, NEW null \in BOOLEAN,
             EnterModel(t, f, h, null) \/ EnterCache(t, f, h)
      PROVE  FailsCleanly
  <2>1. UNCHANGED <<ffiVars, mlive, mretired>>
    BY <1>2 DEF EnterModel, EnterCache
  <2>2. CASE \E status : Return(t, status, "old")
    BY <2>1, <2>2, ReturnsCleanly
  <2>3. CASE \E object, meant : Hold(t, f, object, meant)
    <3>1. reply' = reply \/ reply' = [reply EXCEPT ![t] = NoReply]
      BY <2>3 DEF Hold
    <3>2. \A u \in Threads : reply'[u] = reply[u] \/ reply'[u].status = "OK"
      BY <3>1 DEF ThreadsTyped, NoReply
    <3> QED BY <3>2 DEF FailsCleanly
  <2> QED BY <1>1, <1>2, <2>2, <2>3 DEF EnterModel, EnterCache
<1>3. ASSUME NEW h \in Handles, CacheFree(t, h) \/ WeightsRelease(t, h)
      PROVE  FailsCleanly
  <2>1. PICK status : /\ Return(t, status, "old")
                      /\ status # "OK" => UNCHANGED <<ffiVars, mlive, mretired>>
    BY <1>3 DEF CacheFree, WeightsRelease
  <2> QED BY <2>1, ReturnsCleanly
<1>4. CASE ActModel(t)
  <2>1. PICK r \in ModelOutcomes[call[t].fn] : Return(t, r[1], r[2])
    BY <1>4 DEF ActModel
  <2>2. call[t].fn \in ModelFunctions /\ UNCHANGED <<ffiVars, mlive, mretired>>
    BY <1>4 DEF ActModel
  <2>3. PICK a \in ArgsOf[call[t].fn] :
           r = <<FirstFailure(ModelChecks(call[t].fn, a)),
                 ModelOut(call[t].fn, a, FirstFailure(ModelChecks(call[t].fn, a)))>>
    BY <2>1, <2>2 DEF ModelOutcomes
  <2>4. r[1] # "OK" /\ call[t].fn # "score_tiles" => r[2] = "old"
    BY <2>3 DEF ModelOut
  <2> QED BY <2>1, <2>2, <2>4, ReturnsCleanly
<1>5. CASE ActCache(t)
  <2> DEFINE f == call[t].fn
             c == objects[call[t].object]
  <2>1. PICK r \in ArgOutcomes[f], s \in Slots :
           LET status == IF r[1] # "OK" THEN r[1] ELSE FirstFailure(Refused(f, c, s, r[2]))
           IN /\ Return(t, status, IF status = "OK" THEN CacheOut(f, r[2]) ELSE "old")
              /\ IF status = "OK"
                 THEN \E after \in CacheAfter(f, c, s) : Update(call[t].object, after)
                 ELSE UNCHANGED ffiVars
    BY <1>5 DEF ActCache
  <2>2. UNCHANGED <<mlive, mretired>>
    BY <1>5 DEF ActCache
  <2> DEFINE status == IF r[1] # "OK" THEN r[1] ELSE FirstFailure(Refused(f, c, s, r[2]))
             out    == IF status = "OK" THEN CacheOut(f, r[2]) ELSE "old"
  <2>3. Return(t, status, out) /\ (status # "OK" => UNCHANGED ffiVars /\ out = "old")
    BY <2>1
  <2> HIDE DEF status, out
  <2> QED BY <2>2, <2>3, ReturnsCleanly
<1>6. CASE ProcessTile(t)
  <2>1. PICK status : Return(t, status, IF status = "OK" THEN "new" ELSE "old")
    BY <1>6 DEF ProcessTile
  <2>2. UNCHANGED <<ffiVars, mlive, mretired>>
    BY <1>6 DEF ProcessTile
  <2> DEFINE out == IF status = "OK" THEN "new" ELSE "old"
  <2>3. Return(t, status, out) /\ (status # "OK" => out = "old")
    BY <2>1
  <2> HIDE DEF out
  <2> QED BY <2>2, <2>3, ReturnsCleanly
<1>7. CASE CacheNew(t)
  BY <1>7, ReturnsCleanly DEF CacheNew
<1>8. CASE WeightsLoad(t)
  <2>1. CASE Return(t, "OK", "new")
    BY <2>1, ReturnsCleanly
  <2>2. CASE (\E status : Return(t, status, "old")) /\ UNCHANGED <<ffiVars, mlive, mretired>>
    BY <2>2, ReturnsCleanly
  <2> QED BY <1>8, <2>1, <2>2 DEF WeightsLoad
<1>9. CASE Shutdown(t)
  BY <1>9, ReturnsCleanly DEF Shutdown
<1>10. CASE ActTier(t)
  BY <1>1, <1>10 DEF ActTier
<1>11. CASE Enter(t)
  BY <1>2, <1>3, <1>11 DEF Enter
<1> QED BY <1>4, <1>5, <1>6, <1>7, <1>8, <1>9, <1>10, <1>11

(* A failing call changes no cache and no registry, and only                *)
(* slha_score_tiles may have written some of the caller's buffer.           *)
THEOREM FailuresChangeNothing == Spec => FailureChangesNothing
<1>1. ApiInv /\ [Next]_vars => [FailsCleanly]_vars
  BY StepFailsCleanly DEF Next
<1>2. FailsCleanly =>
        \A t \in Threads :
           reply'[t] # reply[t] /\ reply'[t].status # "OK" =>
              /\ UNCHANGED <<ffiVars, mlive, mretired>>
              /\ call[t].fn # "score_tiles" => reply'[t].out = "old"
  BY DEF FailsCleanly, NothingChanged
<1> QED BY <1>1, <1>2, ApiInitial, ApiStep, PTL DEF Spec, FailureChangesNothing

-----------------------------------------------------------------------------
(* The MCP server: how the lines lie in the pipe. The i-th line ends with   *)
(* its newline at place E[i], counted from the unit read next; the places   *)
(* of what was already read are zero and below.                             *)

Size(s, i) == Messages[s[i]].size

Sent == Seq(DOMAIN Messages)

Layout(E, lo, s, p) ==
    /\ E \in [lo .. Len(s) -> Int]
    /\ \A i \in lo + 1 .. Len(s) : E[i] = E[i - 1] + Size(s, i) + 1
    /\ \A i, j \in lo .. Len(s) : i < j => E[i] < E[j]
    /\ \A i \in lo + 1 .. Len(s) : \A k \in 1 .. Len(p) :
          E[i - 1] < k /\ k < E[i] => p[k] = i
    /\ \A i \in lo + 1 .. Len(s) : E[i] \in 1 .. Len(p) => p[E[i]] = NEWLINE

LEMMA SizeType ==
    ASSUME NEW s \in Sent, NEW i \in 1 .. Len(s)
    PROVE  Size(s, i) \in Nat /\ Size(s, i) >= 1
<1>1. s[i] \in DOMAIN Messages BY ElementOfSeq DEF Sent
<1>2. Messages[s[i]].size \in Nat \ {0} BY <1>1, McpAssumption DEF McpAssumption
<1> QED BY <1>2 DEF Size

LEMMA UnitsType ==
    ASSUME NEW c \in Nat, NEW z \in Nat
    PROVE  /\ Units(c, z) \in Seq(Nat) /\ Len(Units(c, z)) = z
           /\ \A i \in 1 .. z : Units(c, z)[i] = c
BY DEF Units

(* The pipe q ends where the last of the lines s does.                      *)
LaidOut(E, lo, s, q) ==
    /\ q \in Seq(Nat)
    /\ \E F : Layout(F, lo, s, q) /\ F[lo] = E[lo] /\ Len(q) = F[Len(s)]

(* A line is written behind all the others.                                 *)
LEMMA SendLayout ==
    ASSUME NEW s \in Sent, NEW p \in Seq(Nat), NEW m \in DOMAIN Messages,
           NEW lo \in 0 .. Len(s), NEW E, Layout(E, lo, s, p), Len(p) = E[Len(s)],
           NEW q, q = p \o Append(Units(Len(s) + 1, Messages[m].size), NEWLINE)
    PROVE  LaidOut(E, lo, Append(s, m), q)
<1> DEFINE n == Len(s)
           z == Messages[m].size
           t == Append(s, m)
           u == Append(Units(n + 1, z), NEWLINE)
           F == [i \in lo .. n + 1 |-> IF i = n + 1 THEN E[n] + z + 1 ELSE E[i]]
<1>1. n \in Nat /\ z \in Nat /\ z >= 1 /\ Len(p) \in Nat
  BY LenProperties, McpAssumption DEF McpAssumption, Sent
<1>2. t \in Sent /\ Len(t) = n + 1 /\ (\A i \in 1 .. n : t[i] = s[i]) /\ t[n + 1] = m
  BY AppendProperties DEF Sent
<1>3. u \in Seq(Nat) /\ Len(u) = z + 1 /\ (\A i \in 1 .. z : u[i] = n + 1) /\ u[z + 1] = NEWLINE
  <2>1. n + 1 \in Nat /\ NEWLINE \in Nat BY <1>1 DEF NEWLINE
  <2>2. /\ Units(n + 1, z) \in Seq(Nat) /\ Len(Units(n + 1, z)) = z
        /\ \A i \in 1 .. z : Units(n + 1, z)[i] = n + 1
    BY <1>1, <2>1, UnitsType
  <2> HIDE DEF n, z
  <2> QED BY <2>1, <2>2, AppendProperties
<1>4. /\ q \in Seq(Nat) /\ Len(q) = Len(p) + z + 1
      /\ \A i \in 1 .. Len(p) + z + 1 :
            q[i] = IF i <= Len(p) THEN p[i] ELSE u[i - Len(p)]
  <2>1. q = p \o u BY DEF u
  <2> HIDE DEF u, z, n
  <2>2. u \in Seq(Nat) BY <1>3
  <2>3. /\ p \o u \in Seq(Nat) /\ Len(p \o u) = Len(p) + Len(u)
        /\ \A i \in 1 .. Len(p) + Len(u) :
              (p \o u)[i] = IF i <= Len(p) THEN p[i] ELSE u[i - Len(p)]
    BY <2>2, ConcatProperties
  <2>5. \A a, b \in Nat : a + (b + 1) = a + b + 1 OBVIOUS
  <2>4. Len(p) + Len(u) = Len(p) + z + 1 BY <1>1, <1>3, <2>5, Zenon
  <2> QED BY <2>1, <2>3, <2>4, Zenon
<1>5. /\ E \in [lo .. n -> Int]
      /\ \A i \in lo + 1 .. n : E[i] = E[i - 1] + Size(s, i) + 1
      /\ \A i, j \in lo .. n : i < j => E[i] < E[j]
      /\ \A i \in lo + 1 .. n : \A k \in 1 .. Len(p) :
            E[i - 1] < k /\ k < E[i] => p[k] = i
      /\ \A i \in lo + 1 .. n : E[i] \in 1 .. Len(p) => p[E[i]] = NEWLINE
  BY DEF Layout
<1>6. /\ \A i \in lo .. n : F[i] = E[i]
      /\ F[n + 1] = E[n] + z + 1
      /\ F \in [lo .. n + 1 -> Int]
  <2>1. n \in lo .. n /\ E[n] \in Int BY <1>1, <1>5
  <2>2. \A i \in lo .. n : i # n + 1 /\ i \in lo .. n + 1 BY <1>1
  <2>3. n + 1 \in lo .. n + 1 BY <1>1
  <2>4. \A i \in lo .. n + 1 : i # n + 1 => i \in lo .. n BY <1>1
  <2> HIDE DEF n, z
  <2>5. \A i \in lo .. n : F[i] = E[i] BY <2>2
  <2>6. F[n + 1] = E[n] + z + 1 BY <2>3
  <2>7. F \in [lo .. n + 1 -> Int] BY <2>1, <2>4, <1>1, <1>5
  <2> QED BY <2>5, <2>6, <2>7
<1>7. \A i \in lo + 1 .. n : Size(t, i) = Size(s, i)
  BY <1>2, <1>1 DEF Size
<1>8. Size(t, n + 1) = z
  BY <1>2 DEF Size
<1>9. E[n] = Len(p) OBVIOUS
<1>10. \A i \in lo + 1 .. n : E[i] <= E[n] /\ E[i] \in Int /\ E[i - 1] \in Int
  <2> SUFFICES ASSUME NEW i \in lo + 1 .. n PROVE E[i] <= E[n] /\ E[i] \in Int /\ E[i - 1] \in Int
    OBVIOUS
  <2>1. i \in lo .. n /\ n \in lo .. n /\ i - 1 \in lo .. n BY <1>1
  <2>2. E[i] \in Int /\ E[n] \in Int /\ E[i - 1] \in Int BY <2>1, <1>5
  <2>3. CASE i = n BY <2>3, <2>2
  <2>4. CASE i < n
    <3>1. E[i] < E[n] BY <2>1, <2>4, <1>5
    <3> QED BY <3>1, <2>2
  <2> QED BY <2>1, <2>3, <2>4, <1>1
<1> HIDE DEF n, z, t, u, F
<1>11. \A i \in lo + 1 .. n + 1 : F[i] = F[i - 1] + Size(t, i) + 1
  <2> SUFFICES ASSUME NEW i \in lo + 1 .. n + 1 PROVE F[i] = F[i - 1] + Size(t, i) + 1
    OBVIOUS
  <2>1. CASE i = n + 1
    <3>1. i - 1 = n /\ n \in lo .. n BY <2>1, <1>1 DEF n
    <3> QED BY <3>1, <2>1, <1>6, <1>8
  <2>2. CASE i # n + 1
    <3>1. i \in lo + 1 .. n /\ i \in lo .. n /\ i - 1 \in lo .. n BY <2>2, <1>1
    <3> QED BY <3>1, <1>5, <1>6, <1>7
  <2> QED BY <2>1, <2>2
<1>12. \A i, j \in lo .. n + 1 : i < j => F[i] < F[j]
  <2> SUFFICES ASSUME NEW i \in lo .. n + 1, NEW j \in lo .. n + 1, i < j PROVE F[i] < F[j]
    OBVIOUS
  <2>0. i \in lo .. n /\ n \in lo .. n BY <1>1 DEF n
  <2>1. CASE j = n + 1
    <3>1. E[i] <= E[n] /\ E[i] \in Int /\ E[n] \in Int
      <4>1. CASE i = n BY <4>1, <1>9, <1>1
      <4>2. CASE i < n BY <4>2, <2>0, <1>5, <1>1
      <4> QED BY <4>1, <4>2, <2>0, <1>1
    <3> QED BY <3>1, <2>0, <2>1, <1>6, <1>1
  <2>2. CASE j # n + 1
    <3>1. j \in lo .. n BY <2>2, <1>1
    <3> QED BY <3>1, <2>0, <1>5, <1>6
  <2> QED BY <2>1, <2>2
<1>13. ASSUME NEW i \in lo + 1 .. n + 1, NEW k \in 1 .. Len(q), F[i - 1] < k, k < F[i]
       PROVE  q[k] = i
  <2>0. k \in 1 .. Len(p) + z + 1 BY <1>4
  <2>1. CASE i = n + 1
    <3>1. i - 1 = n /\ n \in lo .. n BY <2>1, <1>1 DEF n
    <3>2. Len(p) < k /\ k < Len(p) + z + 1 BY <3>1, <2>1, <1>13, <1>6, <1>9
    <3>3. k - Len(p) \in 1 .. z /\ ~(k <= Len(p)) BY <3>2, <2>0, <1>1
    <3> QED BY <3>3, <2>0, <2>1, <1>3, <1>4
  <2>2. CASE i # n + 1
    <3>1. i \in lo + 1 .. n /\ i \in lo .. n /\ i - 1 \in lo .. n BY <2>2, <1>1
    <3>2. F[i] = E[i] /\ F[i - 1] = E[i - 1] BY <3>1, <1>6
    <3>3. k <= Len(p) BY <3>1, <3>2, <1>13, <1>9, <1>10, <1>1, <2>0
    <3>4. k \in 1 .. Len(p) BY <3>3, <2>0, <1>1
    <3>5. p[k] = i BY <3>1, <3>2, <3>4, <1>5, <1>13
    <3> QED BY <3>3, <3>5, <2>0, <1>4
  <2> QED BY <2>1, <2>2
<1>14. ASSUME NEW i \in lo + 1 .. n + 1, F[i] \in 1 .. Len(q)
       PROVE  q[F[i]] = NEWLINE
  <2>1. CASE i = n + 1
    <3>1. F[i] = Len(p) + z + 1 BY <2>1, <1>6, <1>9
    <3>2. ~(Len(p) + z + 1 <= Len(p)) /\ (Len(p) + z + 1) - Len(p) = z + 1
          /\ Len(p) + z + 1 \in 1 .. Len(p) + z + 1
      BY <1>1
    <3>3. q[Len(p) + z + 1] = IF Len(p) + z + 1 <= Len(p) THEN p[Len(p) + z + 1]
                             ELSE u[(Len(p) + z + 1) - Len(p)]
      BY <3>2, <1>4, Zenon
    <3>4. q[Len(p) + z + 1] = u[z + 1] BY <3>2, <3>3, Zenon
    <3> QED BY <3>1, <3>4, <1>3, Zenon
  <2>2. CASE i # n + 1
    <3>1. i \in lo + 1 .. n /\ i \in lo .. n BY <2>2, <1>1
    <3>2. F[i] = E[i] /\ E[i] <= Len(p) BY <3>1, <1>6, <1>9, <1>10
    <3>3. E[i] \in 1 .. Len(p) /\ E[i] \in 1 .. Len(p) + z + 1
      BY <3>1, <3>2, <1>14, <1>4, <1>1, <1>10
    <3>4. p[E[i]] = NEWLINE BY <3>1, <3>3, <1>5
    <3> QED BY <3>2, <3>3, <3>4, <1>4
  <2> QED BY <2>1, <2>2
<1>15. Layout(F, lo, t, q)
  BY <1>2, <1>6, <1>11, <1>12, <1>13, <1>14 DEF Layout
<1>16. F[lo] = E[lo]
  <2>1. lo \in lo .. n BY <1>1 DEF n
  <2> QED BY <2>1, <1>6
<1>17. Len(q) = F[Len(t)]
  BY <1>2, <1>4, <1>6, <1>9
<1> QED BY <1>4, <1>15, <1>16, <1>17 DEF t, LaidOut

(* A client that closes cuts the last unit.                                 *)
LEMMA CutLayout ==
    ASSUME NEW s \in Sent, NEW p \in Seq(Nat), NEW lo \in 0 .. Len(s), NEW E,
           Layout(E, lo, s, p), Len(p) >= 1, NEW q, q = SubSeq(p, 1, Len(p) - 1)
    PROVE  q \in Seq(Nat) /\ Len(q) = Len(p) - 1 /\ Layout(E, lo, s, q)
<1>1. Len(p) \in Nat /\ Len(s) \in Nat
  BY LenProperties DEF Sent
<1>2. q \in Seq(Nat) /\ Len(q) = Len(p) - 1 /\ \A k \in 1 .. Len(p) - 1 : q[k] = p[k]
  <2>1. \A i \in 1 .. Len(p) - 1 : p[i] \in Nat
    <3>1. \A i \in 1 .. Len(p) - 1 : i \in 1 .. Len(p) BY <1>1
    <3> QED BY <3>1, ElementOfSeq
  <2>2. /\ q \in Seq(Nat) /\ Len(q) = (IF 1 <= Len(p) - 1 THEN Len(p) - 1 - 1 + 1 ELSE 0)
        /\ \A k \in 1 .. Len(p) - 1 - 1 + 1 : q[k] = p[1 + k - 1]
    BY <2>1, <1>1, SubSeqProperties
  <2>3. \A k \in 1 .. Len(p) - 1 : 1 + k - 1 = k BY <1>1
  <2>4. \A a \in Nat : a >= 1 => a - 1 - 1 + 1 = a - 1 /\ (1 <= a - 1 \/ a - 1 = 0)
    OBVIOUS
  <2>5. Len(p) - 1 - 1 + 1 = Len(p) - 1 /\ (1 <= Len(p) - 1 \/ Len(p) - 1 = 0)
    BY <1>1, <2>4
  <2> QED BY <2>2, <2>3, <2>5
<1>3. \A k \in 1 .. Len(q) : k \in 1 .. Len(p) /\ q[k] = p[k]
  BY <1>1, <1>2
<1> QED BY <1>2, <1>3 DEF Layout

(* Every line ends d places nearer.                                         *)
Nearer(E, d, lo, s, q) ==
    \E F : Layout(F, lo, s, q) /\ \A i \in lo .. Len(s) : F[i] = E[i] - d

(* The server takes d units.                                                *)
LEMMA TakeLayout ==
    ASSUME NEW s \in Sent, NEW p \in Seq(Nat), NEW lo \in 0 .. Len(s), NEW E,
           Layout(E, lo, s, p), NEW d \in 0 .. Len(p), NEW q, q = SubSeq(p, d + 1, Len(p))
    PROVE  /\ q \in Seq(Nat) /\ Len(q) = Len(p) - d
           /\ Nearer(E, d, lo, s, q)
<1> DEFINE F == [i \in lo .. Len(s) |-> E[i] - d]
<1>1. Len(p) \in Nat /\ Len(s) \in Nat
  BY LenProperties DEF Sent
<1>2. q \in Seq(Nat) /\ Len(q) = Len(p) - d /\ \A k \in 1 .. Len(p) - d : q[k] = p[k + d]
  <2>1. \A i \in d + 1 .. Len(p) : p[i] \in Nat
    <3>1. \A i \in d + 1 .. Len(p) : i \in 1 .. Len(p) BY <1>1
    <3> QED BY <3>1, ElementOfSeq
  <2>2. /\ q \in Seq(Nat) /\ Len(q) = (IF d + 1 <= Len(p) THEN Len(p) - (d + 1) + 1 ELSE 0)
        /\ \A k \in 1 .. Len(p) - (d + 1) + 1 : q[k] = p[d + 1 + k - 1]
    BY <2>1, <1>1, SubSeqProperties
  <2>3. \A k \in 1 .. Len(p) - d : d + 1 + k - 1 = k + d BY <1>1
  <2>4. Len(p) - (d + 1) + 1 = Len(p) - d /\ (d + 1 <= Len(p) \/ Len(p) - d = 0) BY <1>1
  <2> QED BY <2>2, <2>3, <2>4
<1>3. /\ E \in [lo .. Len(s) -> Int]
      /\ \A i \in lo + 1 .. Len(s) : E[i] = E[i - 1] + Size(s, i) + 1
      /\ \A i, j \in lo .. Len(s) : i < j => E[i] < E[j]
      /\ \A i \in lo + 1 .. Len(s) : \A k \in 1 .. Len(p) :
            E[i - 1] < k /\ k < E[i] => p[k] = i
      /\ \A i \in lo + 1 .. Len(s) : E[i] \in 1 .. Len(p) => p[E[i]] = NEWLINE
  BY DEF Layout
<1>4. \A i \in lo .. Len(s) : F[i] = E[i] - d /\ E[i] \in Int
  BY <1>3
<1>5. F \in [lo .. Len(s) -> Int]
  BY <1>1, <1>3
<1>6. \A i \in lo + 1 .. Len(s) : i \in lo .. Len(s) /\ i - 1 \in lo .. Len(s) /\ Size(s, i) \in Nat
  BY <1>1, SizeType
<1> HIDE DEF F
<1>7. ASSUME NEW i \in lo + 1 .. Len(s) PROVE F[i] = F[i - 1] + Size(s, i) + 1
  <2>1. E[i] = E[i - 1] + Size(s, i) + 1 BY <1>3
  <2>2. F[i] = E[i] - d /\ F[i - 1] = E[i - 1] - d /\ E[i - 1] \in Int /\ Size(s, i) \in Nat
    BY <1>4, <1>6
  <2> QED BY <2>1, <2>2
<1>8. ASSUME NEW i \in lo .. Len(s), NEW j \in lo .. Len(s), i < j PROVE F[i] < F[j]
  <2>1. E[i] < E[j] BY <1>3, <1>8
  <2>2. F[i] = E[i] - d /\ F[j] = E[j] - d /\ E[i] \in Int /\ E[j] \in Int BY <1>4
  <2> QED BY <2>1, <2>2
<1>9. ASSUME NEW i \in lo + 1 .. Len(s), NEW k \in 1 .. Len(q), F[i - 1] < k, k < F[i]
      PROVE  q[k] = i
  <2>1. k + d \in 1 .. Len(p) /\ q[k] = p[k + d] /\ k \in Nat BY <1>1, <1>2
  <2>2. F[i] = E[i] - d /\ F[i - 1] = E[i - 1] - d /\ E[i - 1] \in Int /\ E[i] \in Int
    BY <1>4, <1>6
  <2>4. \A a, b, x, y \in Int : a - x < y /\ y < b - x => a < y + x /\ y + x < b
    OBVIOUS
  <2>5. k \in Int /\ d \in Int BY <1>1, <2>1
  <2>6. E[i - 1] - d < k /\ k < E[i] - d BY <1>9, <2>2, Zenon
  <2>3. E[i - 1] < k + d /\ k + d < E[i] BY <2>2, <2>4, <2>5, <2>6, Zenon
  <2> QED BY <2>1, <2>3, <1>3
<1>10. ASSUME NEW i \in lo + 1 .. Len(s), F[i] \in 1 .. Len(q) PROVE q[F[i]] = NEWLINE
  <2>0. F[i] = E[i] - d /\ E[i] \in Int BY <1>4, <1>6
  <2>1. F[i] + d = E[i] BY <2>0
  <2>3. F[i] \in 1 .. Len(p) - d BY <1>2, <1>10
  <2>4. q[F[i]] = p[F[i] + d] BY <2>3, <1>2
  <2>5. \A f \in 1 .. Len(p) - d : f + d \in 1 .. Len(p) BY <1>1
  <2>2. F[i] + d \in 1 .. Len(p) /\ q[F[i]] = p[F[i] + d] BY <2>3, <2>4, <2>5
  <2> QED BY <2>1, <2>2, <1>3
<1>11. Layout(F, lo, s, q)
  BY <1>5, <1>7, <1>8, <1>9, <1>10 DEF Layout
<1> QED BY <1>2, <1>4, <1>11 DEF Nearer

(* A line that was read is no longer laid out.                              *)
LEMMA NextLayout ==
    ASSUME NEW s \in Sent, NEW p \in Seq(Nat), NEW lo \in 0 .. Len(s) - 1, NEW E,
           Layout(E, lo, s, p)
    PROVE  Nearer(E, 0, lo + 1, s, p)
<1> DEFINE F == [i \in lo + 1 .. Len(s) |-> E[i]]
<1>1. Len(s) \in Nat
  BY LenProperties DEF Sent
<1>2. \A i \in lo + 1 .. Len(s) : F[i] = E[i]
  OBVIOUS
<1>3. \A i \in lo + 1 .. Len(s) : i \in lo .. Len(s)
  BY <1>1
<1>4. \A i \in lo + 1 + 1 .. Len(s) : i \in lo + 1 .. Len(s) /\ i - 1 \in lo + 1 .. Len(s)
  BY <1>1
<1>5. F \in [lo + 1 .. Len(s) -> Int]
  BY <1>3 DEF Layout
<1> HIDE DEF F
<1>6. Layout(F, lo + 1, s, p)
  BY <1>2, <1>3, <1>4, <1>5 DEF Layout
<1>7. \A i \in lo + 1 .. Len(s) : E[i] \in Int
  BY <1>3 DEF Layout
<1>8. \A i \in lo + 1 .. Len(s) : F[i] = E[i] - 0
  BY <1>2, <1>7
<1> QED BY <1>6, <1>8 DEF Nearer

(* What read_frame has done when r units of the current line were read, and *)
(* when the whole line was.                                                 *)
EndsAt(E) ==
    Len(pending) = E[Len(sent)] \/ (closed /\ Len(pending) = E[Len(sent)] - 1)

Held(r) ==
    /\ frame.too_large <=> r > MAX_FRAME
    /\ buffer = IF r > MAX_FRAME THEN <<>> ELSE Units(done + 1, r)

Reading(E, r) ==
    /\ Layout(E, done, sent, pending) /\ EndsAt(E) /\ E[done] = 0 - r
    /\ r # 0 => done < Len(sent) /\ r <= Size(sent, done + 1)
    /\ frame.saw_input <=> r > 0
    /\ Held(r)

Handling(E) ==
    /\ done < Len(sent)
    /\ Layout(E, done + 1, sent, pending) /\ EndsAt(E) /\ E[done + 1] = 0
    /\ Held(Size(sent, done + 1))

(* The answers so far are those of the lines handled, in order.             *)
AnswersInOrder ==
    /\ Len(answers) = AnswersTo(done)
    /\ \A i \in 1 .. done :
          Answered(sent[i]) => answers[AnswersTo(i)].id = AnswerId(sent[i])

HandshakeOver ==
    \E i, j \in 1 .. done : i < j /\ Accepted(Msg(i)) /\ Confirms(Msg(j))

Handshake ==
    /\ lifecycle = "AwaitingInitialized" => \E i \in 1 .. done : Accepted(Msg(i))
    /\ lifecycle = "Ready" => HandshakeOver
    /\ (\E a \in DOMAIN answers : RanATool(answers[a])) => HandshakeOver

Ids == {"null"} \cup {Messages[i].id : i \in DOMAIN Messages}
Kinds == {"result", "tool_result", "tool_error", "error -32700", "error -32600",
          "error -32601", "error -32602", "error -32002"}
Replies == [id : Ids, kind : Kinds]

McpInv ==
    /\ sent \in Sent /\ pending \in Seq(Nat) /\ done \in Nat /\ done <= Len(sent)
    /\ answers \in Seq(Replies)
    /\ pc \in {"read", "handle", "exit"}
    /\ pc = "read" => \E E : \E r \in Nat : Reading(E, r)
    /\ pc = "handle" => \E E : Handling(E)
    /\ pc # "exit" => AnswersInOrder
    /\ Handshake

LEMMA NoUnits ==
    ASSUME NEW c PROVE Units(c, 0) = <<>>
BY DEF Units

(* Units of one line behind units of the same line.                         *)
LEMMA MoreUnits ==
    ASSUME NEW c \in Nat, NEW r \in Nat, NEW l \in Nat, NEW p \in Seq(Nat), l <= Len(p),
           \A k \in 1 .. l : p[k] = c
    PROVE  Units(c, r) \o SubSeq(p, 1, l) = Units(c, r + l)
<1> DEFINE q == SubSeq(p, 1, l)
<1>1. Len(p) \in Nat BY LenProperties
<1>2. q \in Seq(Nat) /\ Len(q) = l /\ \A k \in 1 .. l : q[k] = c
  <2>1. \A i \in 1 .. l : p[i] \in Nat OBVIOUS
  <2>2. /\ q \in Seq(Nat) /\ Len(q) = (IF 1 <= l THEN l - 1 + 1 ELSE 0)
        /\ \A k \in 1 .. l - 1 + 1 : q[k] = p[1 + k - 1]
    BY <2>1, SubSeqProperties
  <2>3. \A k \in 1 .. l : 1 + k - 1 = k OBVIOUS
  <2>4. l - 1 + 1 = l /\ (1 <= l \/ l = 0) OBVIOUS
  <2> HIDE DEF q
  <2> QED BY <2>2, <2>3, <2>4
<1> HIDE DEF q
<1> DEFINE a == Units(c, r)
           b == Units(c, r + l)
<1>3. a \in Seq(Nat) /\ Len(a) = r /\ \A i \in 1 .. r : a[i] = c
  BY UnitsType
<1>4. b \in Seq(Nat) /\ Len(b) = r + l /\ \A i \in 1 .. r + l : b[i] = c
  BY UnitsType
<1> HIDE DEF a, b
<1>5. /\ a \o q \in Seq(Nat) /\ Len(a \o q) = Len(a) + Len(q)
      /\ \A i \in 1 .. Len(a) + Len(q) :
            (a \o q)[i] = IF i <= Len(a) THEN a[i] ELSE q[i - Len(a)]
  BY <1>2, <1>3, ConcatProperties
<1>6. ASSUME NEW i \in 1 .. r + l PROVE (a \o q)[i] = c
  <2>1. (a \o q)[i] = IF i <= r THEN a[i] ELSE q[i - r] BY <1>2, <1>3, <1>5
  <2>2. CASE i <= r BY <2>1, <2>2, <1>3
  <2>3. CASE ~(i <= r)
    <3>1. i - r \in 1 .. l BY <2>3
    <3> QED BY <3>1, <2>1, <2>3, <1>2
  <2> QED BY <2>2, <2>3
<1>7. a \o q = b
  <2>1. Len(a \o q) = Len(b) /\ Len(b) = r + l BY <1>2, <1>3, <1>4, <1>5
  <2>2. \A i \in 1 .. Len(a \o q) : (a \o q)[i] = b[i] BY <2>1, <1>4, <1>6
  <2> QED BY <2>1, <2>2, <1>4, <1>5, SeqEqual
<1> QED BY <1>7 DEF a, b, q

(* The current line ends with the first newline there is.                   *)
LEMMA FirstNewline ==
    ASSUME NEW s \in Sent, NEW p \in Seq(Nat), NEW d \in Nat, d < Len(s), NEW E,
           Layout(E, d, s, p), NEW r \in Nat, E[d] = 0 - r, r <= Size(s, d + 1)
    PROVE  /\ E[d + 1] = Size(s, d + 1) + 1 - r /\ E[d + 1] >= 1
           /\ \A k \in 1 .. Len(p) : k < E[d + 1] => p[k] = d + 1
           /\ E[d + 1] \in 1 .. Len(p) => p[E[d + 1]] = NEWLINE
<1>1. d + 1 \in d + 1 .. Len(s) /\ d + 1 \in 1 .. Len(s) /\ d + 1 - 1 = d
  BY LenProperties DEF Sent
<1>2. Size(s, d + 1) \in Nat BY <1>1, SizeType
<1>3. /\ E[d + 1] = E[d] + Size(s, d + 1) + 1
      /\ \A k \in 1 .. Len(p) : E[d] < k /\ k < E[d + 1] => p[k] = d + 1
      /\ E[d + 1] \in 1 .. Len(p) => p[E[d + 1]] = NEWLINE
  BY <1>1 DEF Layout
<1>4. Len(p) \in Nat BY LenProperties
<1>5. \A k \in 1 .. Len(p) : 0 - r < k BY <1>4
<1> QED BY <1>2, <1>3, <1>5

(* What is known of the first lines does not change when another is sent.   *)
LEMMA SendKeepsHistory ==
    ASSUME McpInv, NEW m \in DOMAIN Messages, sent' = Append(sent, m),
           UNCHANGED <<done, answers, lifecycle>>
    PROVE  (AnswersInOrder => AnswersInOrder') /\ Handshake'
<1>1. sent \in Sent /\ done \in Nat /\ done <= Len(sent) /\ Len(sent) \in Nat
  BY LenProperties DEF McpInv, Sent
<1>2. \A i \in 1 .. done : sent'[i] = sent[i]
  BY <1>1, AppendProperties DEF Sent
<1>3. \A i \in 1 .. done : Msg(i)' = Msg(i)
  BY <1>2 DEF Msg
<1>4. ASSUME NEW i \in 0 .. done PROVE AnswersTo(i)' = AnswersTo(i)
  <2>1. \A j \in 1 .. i : j \in 1 .. done BY <1>1
  <2>2. {j \in 1 .. i : Answered(sent'[j])} = {j \in 1 .. i : Answered(sent[j])}
    BY <1>2, <2>1
  <2> QED BY <2>2 DEF AnswersTo
<1>5. done \in 0 .. done /\ \A i \in 1 .. done : i \in 0 .. done BY <1>1
<1>6. AnswersInOrder => AnswersInOrder'
  BY <1>2, <1>4, <1>5 DEF AnswersInOrder
<1>7. HandshakeOver' <=> HandshakeOver
  BY <1>3 DEF HandshakeOver
<1>8. Handshake BY DEF McpInv
<1> QED BY <1>3, <1>6, <1>7, <1>8 DEF Handshake

LEMMA SendStep ==
    ASSUME McpInv, NEW m \in DOMAIN Messages, Send(m)
    PROVE  McpInv'
<1>1. /\ sent \in Sent /\ pending \in Seq(Nat) /\ done \in Nat /\ done <= Len(sent)
      /\ Len(sent) \in Nat
  BY LenProperties DEF McpInv, Sent
<1>2. /\ ~closed /\ pc # "exit" /\ sent' = Append(sent, m)
      /\ UNCHANGED <<closed, buffer, frame, pc, done, lifecycle, answers>>
  BY DEF Send
<1>3. sent' \in Sent /\ Len(sent') = Len(sent) + 1 /\ \A i \in 1 .. Len(sent) : sent'[i] = sent[i]
  BY <1>1, <1>2, AppendProperties DEF Sent
<1>4. pending' = pending \o Append(Units(Len(sent) + 1, Messages[m].size), NEWLINE)
  BY <1>3 DEF Send
<1>5. (AnswersInOrder => AnswersInOrder') /\ Handshake'
  BY <1>2, SendKeepsHistory
<1>6. \A i \in 1 .. Len(sent) : Size(sent', i) = Size(sent, i)
  BY <1>3 DEF Size
<1>7. CASE pc = "read"
  <2>0. PICK E : \E r \in Nat : Reading(E, r) BY <1>7 DEF McpInv
  <2>1. PICK r \in Nat : Reading(E, r) BY <2>0
  <2>2. Layout(E, done, sent, pending) /\ Len(pending) = E[Len(sent)] /\ E[done] = 0 - r
    BY <2>1, <1>2 DEF Reading, EndsAt
  <2>3. done \in 0 .. Len(sent) BY <1>1
  <2>4. pending' \in Seq(Nat)
        /\ \E F : Layout(F, done, sent', pending') /\ F[done] = E[done]
                  /\ Len(pending') = F[Len(sent')]
    <3>1. LaidOut(E, done, Append(sent, m), pending')
      BY <1>1, <1>4, <2>2, <2>3, SendLayout
    <3> QED BY <3>1, <1>2, Zenon DEF LaidOut
  <2>5. PICK F : Layout(F, done, sent', pending') /\ F[done] = E[done]
                 /\ Len(pending') = F[Len(sent')]
    BY <2>4
  <2>6. r # 0 => done < Len(sent') /\ r <= Size(sent', done + 1)
    <3> SUFFICES ASSUME r # 0 PROVE done < Len(sent') /\ r <= Size(sent', done + 1) OBVIOUS
    <3>1. done < Len(sent) /\ r <= Size(sent, done + 1) BY <2>1 DEF Reading
    <3>2. done + 1 \in 1 .. Len(sent) BY <3>1, <1>1
    <3> QED BY <3>1, <3>2, <1>1, <1>3, <1>6
  <2>7. Reading(F, r)'
    <3>1. Held(r)' BY <2>1, <1>2 DEF Reading, Held
    <3>2. EndsAt(F)' BY <2>5 DEF EndsAt
    <3>3. frame'.saw_input <=> r > 0 BY <2>1, <1>2 DEF Reading
    <3>4. Layout(F, done', sent', pending') /\ F[done'] = 0 - r BY <2>2, <2>5, <1>2
    <3> QED BY <3>1, <3>2, <3>3, <3>4, <2>6, <1>2 DEF Reading
  <2>8. pc' = "read" /\ \E G : \E x \in Nat : Reading(G, x)' BY <2>7, <1>7, <1>2
  <2>9. AnswersInOrder BY <1>7 DEF McpInv
  <2>10. done' \in Nat /\ done' <= Len(sent') /\ answers' \in Seq(Replies)
    BY <1>1, <1>2, <1>3 DEF McpInv
  <2> QED BY <1>3, <1>5, <2>4, <2>8, <2>9, <2>10 DEF McpInv
<1>8. CASE pc = "handle"
  <2>1. PICK E : Handling(E) BY <1>8 DEF McpInv
  <2>2. /\ Layout(E, done + 1, sent, pending) /\ Len(pending) = E[Len(sent)]
        /\ E[done + 1] = 0 /\ done < Len(sent)
    BY <2>1, <1>2 DEF Handling, EndsAt
  <2>3. done + 1 \in 0 .. Len(sent) /\ done + 1 \in 1 .. Len(sent) BY <1>1, <2>2
  <2>4. pending' \in Seq(Nat)
        /\ \E F : Layout(F, done + 1, sent', pending') /\ F[done + 1] = E[done + 1]
                  /\ Len(pending') = F[Len(sent')]
    <3>1. LaidOut(E, done + 1, Append(sent, m), pending')
      BY <1>1, <1>4, <2>2, <2>3, SendLayout
    <3> QED BY <3>1, <1>2, Zenon DEF LaidOut
  <2>5. PICK F : Layout(F, done + 1, sent', pending') /\ F[done + 1] = E[done + 1]
                 /\ Len(pending') = F[Len(sent')]
    BY <2>4
  <2>7. Handling(F)'
    <3>2. Size(sent', done' + 1) = Size(sent, done + 1) BY <1>2, <1>6, <2>3
    <3>3. /\ frame'.too_large <=> Size(sent', done' + 1) > MAX_FRAME
          /\ buffer' = IF Size(sent', done' + 1) > MAX_FRAME THEN <<>>
                       ELSE Units(done' + 1, Size(sent', done' + 1))
      BY <2>1, <3>2, <1>2 DEF Handling, Held
    <3>4. EndsAt(F)' BY <2>5 DEF EndsAt
    <3>5. done' < Len(sent') BY <2>2, <1>1, <1>2, <1>3
    <3>6. Layout(F, done' + 1, sent', pending') /\ F[done' + 1] = 0 BY <2>2, <2>5, <1>2
    <3> QED BY <3>3, <3>4, <3>5, <3>6 DEF Handling, Held
  <2>8. pc' = "handle" /\ \E G : Handling(G)' BY <2>7, <1>8, <1>2
  <2>9. AnswersInOrder BY <1>8 DEF McpInv
  <2>10. done' \in Nat /\ done' <= Len(sent') /\ answers' \in Seq(Replies)
    BY <1>1, <1>2, <1>3 DEF McpInv
  <2> QED BY <1>3, <1>5, <2>4, <2>8, <2>9, <2>10 DEF McpInv
<1> QED BY <1>2, <1>7, <1>8 DEF McpInv

LEMMA CloseStep ==
    ASSUME McpInv, Close
    PROVE  McpInv'
<1>1. /\ sent \in Sent /\ pending \in Seq(Nat) /\ done \in Nat /\ done <= Len(sent)
      /\ Len(sent) \in Nat /\ Len(pending) \in Nat
  BY LenProperties DEF McpInv, Sent
<1>2. /\ ~closed /\ closed' = TRUE
      /\ UNCHANGED <<sent, buffer, frame, pc, done, lifecycle, answers>>
      /\ \/ pending' = pending
         \/ pending # <<>> /\ pending' = SubSeq(pending, 1, Len(pending) - 1)
  BY DEF Close
<1>3. (AnswersInOrder => AnswersInOrder') /\ Handshake'
  BY <1>2 DEF McpInv, AnswersInOrder, AnswersTo, Handshake, HandshakeOver, Msg
<1>4. ASSUME NEW E, NEW lo \in 0 .. Len(sent), Layout(E, lo, sent, pending), EndsAt(E)
      PROVE  pending' \in Seq(Nat) /\ Layout(E, lo, sent', pending') /\ EndsAt(E)'
  <2>0. Len(pending) = E[Len(sent)] BY <1>4, <1>2 DEF EndsAt
  <2>1. CASE pending' = pending
    BY <2>1, <2>0, <1>1, <1>2, <1>4 DEF EndsAt
  <2>2. CASE pending # <<>> /\ pending' = SubSeq(pending, 1, Len(pending) - 1)
    <3>1. Len(pending) >= 1 BY <2>2, <1>1, EmptySeq
    <3>2. pending' \in Seq(Nat) /\ Len(pending') = Len(pending) - 1
          /\ Layout(E, lo, sent, pending')
      BY <3>1, <2>2, <1>1, <1>4, CutLayout
    <3> QED BY <3>2, <2>0, <1>2 DEF EndsAt
  <2> QED BY <2>1, <2>2, <1>2
<1>5. done' \in Nat /\ done' <= Len(sent') /\ answers' \in Seq(Replies) /\ sent' \in Sent
      /\ pc' = pc /\ pc \in {"read", "handle", "exit"}
  BY <1>1, <1>2 DEF McpInv
<1>6. CASE pc = "read"
  <2>0. PICK E : \E r \in Nat : Reading(E, r) BY <1>6 DEF McpInv
  <2>1. PICK r \in Nat : Reading(E, r) BY <2>0
  <2>2. done \in 0 .. Len(sent) BY <1>1
  <2>3. pending' \in Seq(Nat) /\ Layout(E, done, sent', pending') /\ EndsAt(E)'
    BY <1>4, <2>1, <2>2 DEF Reading
  <2>4. Held(r)' BY <2>1, <1>2 DEF Reading, Held
  <2>5. Reading(E, r)' BY <2>1, <2>3, <2>4, <1>2 DEF Reading
  <2>6. pc' = "read" /\ \E G : \E x \in Nat : Reading(G, x)' BY <2>5, <1>6, <1>2
  <2>7. AnswersInOrder' BY <1>3, <1>6 DEF McpInv
  <2> QED BY <1>3, <1>5, <2>3, <2>6, <2>7 DEF McpInv
<1>7. CASE pc = "handle"
  <2>1. PICK E : Handling(E) BY <1>7 DEF McpInv
  <2>2. done + 1 \in 0 .. Len(sent) BY <2>1, <1>1 DEF Handling
  <2>3. pending' \in Seq(Nat) /\ Layout(E, done + 1, sent', pending') /\ EndsAt(E)'
    BY <1>4, <2>1, <2>2 DEF Handling
  <2>4. Held(Size(sent, done + 1))' BY <2>1, <1>2 DEF Handling, Held
  <2>5. Handling(E)' BY <2>1, <2>3, <2>4, <1>2 DEF Handling
  <2>6. pc' = "handle" /\ \E G : Handling(G)' BY <2>5, <1>7, <1>2
  <2>7. AnswersInOrder' BY <1>3, <1>7 DEF McpInv
  <2> QED BY <1>3, <1>5, <2>3, <2>6, <2>7 DEF McpInv
<1>8. CASE pc = "exit"
  <2>1. pending' \in Seq(Nat)
    <3>1. CASE pending' = pending BY <3>1, <1>1
    <3>2. CASE pending # <<>> /\ pending' = SubSeq(pending, 1, Len(pending) - 1)
      <4>1. \A i \in 1 .. Len(pending) - 1 : pending[i] \in Nat
        <5>1. \A i \in 1 .. Len(pending) - 1 : i \in 1 .. Len(pending) BY <1>1
        <5> QED BY <5>1, <1>1, ElementOfSeq
      <4>2. 1 \in Int /\ Len(pending) - 1 \in Int BY <1>1
      <4> QED BY <4>1, <4>2, <3>2, SubSeqProperties
    <3> QED BY <3>1, <3>2, <1>2
  <2> QED BY <1>3, <1>5, <1>8, <2>1 DEF McpInv
<1> QED BY <1>5, <1>6, <1>7, <1>8

(* What a chunk leaves: either the line goes on, or it has ended.           *)
LEMMA ReadChunkStep ==
    ASSUME McpInv, NEW k \in 1 .. Len(pending), ReadChunk(k)
    PROVE  McpInv'
<1> DEFINE newlines == {i \in 1 .. k : pending[i] = NEWLINE}
           newline  == newlines # {}
           payload_len == IF newline
                          THEN (CHOOSE i \in newlines : \A j \in newlines : i <= j) - 1
                          ELSE k
           consumed == payload_len + (IF newline THEN 1 ELSE 0)
           too_large == frame.too_large \/ Len(buffer) + payload_len > MAX_FRAME
           c == done + 1
           n == Len(sent)
           z == Size(sent, c)
<1>1. /\ pc = "read"
      /\ frame' = [saw_input |-> TRUE, too_large |-> too_large]
      /\ buffer' = IF too_large THEN <<>> ELSE buffer \o SubSeq(pending, 1, payload_len)
      /\ pending' = SubSeq(pending, consumed + 1, Len(pending))
      /\ pc' = IF newline THEN "handle" ELSE "read"
      /\ UNCHANGED <<sent, closed, done, lifecycle, answers>>
  BY DEF ReadChunk, AtEnd
<1>2. /\ sent \in Sent /\ pending \in Seq(Nat) /\ done \in Nat /\ done <= n
      /\ n \in Nat /\ Len(pending) \in Nat /\ MAX_FRAME \in Nat
  BY LenProperties, McpAssumption DEF McpInv, Sent, McpAssumption
<1>3. PICK E : \E r \in Nat : Reading(E, r) BY <1>1 DEF McpInv
<1>4. PICK r \in Nat : Reading(E, r) BY <1>3
<1>5. Layout(E, done, sent, pending) /\ EndsAt(E) /\ E[done] = 0 - r
      /\ (r # 0 => done < n /\ r <= z) /\ (frame.saw_input <=> r > 0)
      /\ (frame.too_large <=> r > MAX_FRAME)
      /\ buffer = IF r > MAX_FRAME THEN <<>> ELSE Units(c, r)
  BY <1>4 DEF Reading, Held
<1>6. done < n
  <2> SUFFICES ASSUME done = n PROVE FALSE BY <1>2
  <2>1. E[n] = 0 - r BY <1>5
  <2>2. Len(pending) = E[n] \/ Len(pending) = E[n] - 1 BY <1>5 DEF EndsAt
  <2> HIDE DEF n
  <2> QED BY <2>1, <2>2, <1>2
<1>7. c \in 1 .. n /\ c \in Nat /\ z \in Nat /\ z >= 1 /\ r <= z
  <2>1. c \in 1 .. n /\ c \in Nat BY <1>2, <1>6
  <2>2. z \in Nat /\ z >= 1 BY <2>1, <1>2, SizeType
  <2> HIDE DEF z
  <2>3. r <= z BY <2>2, <1>5
  <2> QED BY <2>1, <2>2, <2>3
<1>8. /\ E[c] = z + 1 - r /\ E[c] >= 1
      /\ \A j \in 1 .. Len(pending) : j < E[c] => pending[j] = c
      /\ E[c] \in 1 .. Len(pending) => pending[E[c]] = NEWLINE
  BY <1>2, <1>5, <1>6, <1>7, FirstNewline
<1>9. AnswersInOrder' /\ Handshake'
  BY <1>1 DEF McpInv, AnswersInOrder, AnswersTo, Handshake, HandshakeOver, Msg
<1>10. /\ sent' \in Sent /\ done' \in Nat /\ done' <= Len(sent') /\ answers' \in Seq(Replies)
  BY <1>1, <1>2 DEF McpInv
<1>11. NEWLINE # c BY <1>7 DEF NEWLINE
<1>12. frame'.saw_input = TRUE /\ frame'.too_large = too_large BY <1>1
<1> HIDE DEF z, n, c
<1>13. k \in Nat /\ k >= 1 /\ k <= Len(pending) /\ E[c] \in Nat BY <1>2, <1>7, <1>8
<1>14. ASSUME NEW l \in 0 .. Len(pending), l < E[c]
       PROVE  /\ Units(c, r) \o SubSeq(pending, 1, l) = Units(c, r + l)
              /\ payload_len = l =>
                   /\ (too_large <=> r + l > MAX_FRAME)
                   /\ buffer' = IF r + l > MAX_FRAME THEN <<>> ELSE Units(c, r + l)
  <2>1. \A j \in 1 .. l : pending[j] = c
    <3>1. \A j \in 1 .. l : j \in 1 .. Len(pending) /\ j < E[c] BY <1>14, <1>13, <1>2
    <3> QED BY <3>1, <1>8
  <2>2. l \in Nat /\ l <= Len(pending) BY <1>2
  <2>3. Units(c, r) \o SubSeq(pending, 1, l) = Units(c, r + l)
    <3>1. c \in Nat /\ pending \in Seq(Nat) BY <1>2, <1>7
    <3> QED BY <3>1, <2>1, <2>2, MoreUnits, Zenon
  <2>4. ASSUME payload_len = l
        PROVE  /\ (too_large <=> r + l > MAX_FRAME)
               /\ buffer' = IF r + l > MAX_FRAME THEN <<>> ELSE Units(c, r + l)
    <3> HIDE DEF payload_len
    <3>1. CASE r > MAX_FRAME
      <4>1. r + l > MAX_FRAME BY <3>1, <2>2, <1>2
      <4>2. too_large BY <3>1, <1>5
      <4> HIDE DEF too_large
      <4> QED BY <4>1, <4>2, <1>1
    <3>2. CASE ~(r > MAX_FRAME)
      <4>1. buffer = Units(c, r) /\ ~frame.too_large BY <3>2, <1>5
      <4>2. Len(buffer) = r BY <4>1, <1>7, UnitsType
      <4>3. too_large <=> r + l > MAX_FRAME BY <4>1, <4>2, <2>4
      <4>4. buffer' = IF too_large THEN <<>> ELSE Units(c, r) \o SubSeq(pending, 1, l)
        BY <1>1, <2>4, <4>1
      <4> HIDE DEF too_large
      <4>5. buffer' = IF too_large THEN <<>> ELSE Units(c, r + l)
        BY <4>4, <2>3
      <4> QED BY <4>3, <4>5
    <3> QED BY <3>1, <3>2
  <2> HIDE DEF payload_len, too_large
  <2> QED BY <2>3, <2>4
<1>15. CASE E[c] <= k
  <2>1. E[c] \in newlines /\ \A j \in newlines : E[c] <= j
    <3>1. E[c] \in 1 .. Len(pending) /\ E[c] \in 1 .. k BY <1>15, <1>13, <1>8
    <3>2. E[c] \in newlines BY <3>1, <1>8
    <3>3. ASSUME NEW j \in newlines, ~(E[c] <= j) PROVE FALSE
      <4>1. j \in 1 .. Len(pending) /\ pending[j] = NEWLINE BY <1>13
      <4>2. j < E[c] BY <3>3, <4>1, <1>13
      <4> QED BY <4>1, <4>2, <1>8, <1>11
    <3> QED BY <3>2, <3>3
  <2>2. newline BY <2>1
  <2>3. (CHOOSE i \in newlines : \A j \in newlines : i <= j) = E[c]
    <3> DEFINE i0 == CHOOSE i \in newlines : \A j \in newlines : i <= j
    <3>1. i0 \in newlines /\ \A j \in newlines : i0 <= j BY <2>1
    <3>2. i0 <= E[c] /\ E[c] <= i0 BY <3>1, <2>1
    <3>3. i0 \in Nat BY <3>1, <1>13
    <3> HIDE DEF i0, newlines
    <3>4. i0 = E[c] BY <3>2, <3>3, <1>13
    <3> QED BY <3>4 DEF i0
  <2>4. payload_len = E[c] - 1 BY <2>2, <2>3
  <2>5. consumed = E[c]
    <3> HIDE DEF payload_len, newline
    <3> QED BY <2>2, <2>4, <1>13
  <2>6. r + (E[c] - 1) = z BY <1>7, <1>8
  <2>7. /\ (too_large <=> z > MAX_FRAME)
        /\ buffer' = IF z > MAX_FRAME THEN <<>> ELSE Units(c, z)
    <3>1. E[c] - 1 \in 0 .. Len(pending) /\ E[c] - 1 < E[c] BY <1>13, <1>15, <1>8
    <3> HIDE DEF payload_len, too_large
    <3> QED BY <3>1, <1>14, <2>4, <2>6
  <2>8. Held(Size(sent, done + 1))'
    <3> HIDE DEF too_large
    <3> QED BY <2>7, <1>1, <1>12 DEF Held, z, c
  <2>9. /\ pending' \in Seq(Nat) /\ Len(pending') = Len(pending) - E[c]
        /\ Nearer(E, E[c], done, sent, pending')
    <3>1. E[c] \in 0 .. Len(pending) BY <1>13, <1>15
    <3>2. pending' = SubSeq(pending, E[c] + 1, Len(pending)) BY <1>1, <2>5
    <3>3. done \in 0 .. Len(sent) BY <1>2 DEF n
    <3>4. PICK d : d = E[c] OBVIOUS
    <3>5. d \in 0 .. Len(pending) /\ pending' = SubSeq(pending, d + 1, Len(pending))
      BY <3>1, <3>2, <3>4
    <3>6. /\ pending' \in Seq(Nat) /\ Len(pending') = Len(pending) - d
          /\ Nearer(E, d, done, sent, pending')
      BY <3>3, <3>5, <1>2, <1>5, TakeLayout
    <3> QED BY <3>4, <3>6
  <2>10. PICK F : Layout(F, done, sent, pending') /\ \A i \in done .. n : F[i] = E[i] - E[c]
    BY <2>9 DEF Nearer, n
  <2>11. Nearer(F, 0, done + 1, sent, pending')
    <3>1. done \in 0 .. Len(sent) - 1 BY <1>2, <1>6 DEF n
    <3> QED BY <3>1, <2>9, <2>10, <1>2, NextLayout
  <2>12. PICK G : Layout(G, done + 1, sent, pending') /\ \A i \in done + 1 .. n : G[i] = F[i] - 0
    BY <2>11 DEF Nearer, n
  <2>13. ASSUME NEW i \in done + 1 .. n PROVE G[i] = E[i] - E[c] /\ E[i] \in Int
    <3>1. i \in done .. n BY <1>2
    <3>2. E[i] \in Int BY <3>1, <1>5 DEF Layout, n
    <3>3. G[i] = F[i] - 0 /\ F[i] = E[i] - E[c] BY <3>1, <2>10, <2>12
    <3> QED BY <3>2, <3>3, <1>13
  <2>14. n \in done + 1 .. n /\ c \in done + 1 .. n BY <1>2, <1>6 DEF c
  <2>15. EndsAt(G)'
    <3>1. G[n] = E[n] - E[c] /\ E[n] \in Int BY <2>13, <2>14
    <3>2. Len(pending) = E[n] \/ (closed /\ Len(pending) = E[n] - 1)
      BY <1>5 DEF EndsAt, n
    <3>3. Len(pending') = G[n] \/ (closed /\ Len(pending') = G[n] - 1)
      BY <3>1, <3>2, <2>9, <1>13
    <3> QED BY <3>3, <1>1 DEF EndsAt, n
  <2>16. G[done + 1] = 0
    <3>1. G[c] = E[c] - E[c] BY <2>13, <2>14
    <3> QED BY <3>1, <1>13 DEF c
  <2>17. Handling(G)'
    BY <2>8, <2>12, <2>15, <2>16, <1>1, <1>6 DEF Handling, n
  <2>18. pc' = "handle" BY <1>1, <2>2
  <2> QED BY <2>9, <2>17, <2>18, <1>9, <1>10 DEF McpInv
<1>16. CASE ~(E[c] <= k)
  <2>1. newlines = {}
    <3> SUFFICES ASSUME NEW j \in newlines PROVE FALSE OBVIOUS
    <3>1. j \in 1 .. Len(pending) /\ pending[j] = NEWLINE /\ j <= k BY <1>13
    <3>2. j < E[c] BY <3>1, <1>13, <1>16
    <3> QED BY <3>1, <3>2, <1>8, <1>11
  <2>2. ~newline /\ payload_len = k BY <2>1
  <2>3. consumed = k
    <3> HIDE DEF payload_len, newline
    <3> QED BY <2>2, <1>13
  <2>4. r + k \in Nat /\ r + k > 0 /\ r + k <= z /\ k < E[c] BY <1>7, <1>8, <1>13, <1>16
  <2>7. /\ (too_large <=> r + k > MAX_FRAME)
        /\ buffer' = IF r + k > MAX_FRAME THEN <<>> ELSE Units(c, r + k)
    <3>1. k \in 0 .. Len(pending) BY <1>13
    <3> HIDE DEF payload_len, too_large
    <3> QED BY <3>1, <1>14, <2>2, <2>4
  <2>8. Held(r + k)'
    <3> HIDE DEF too_large
    <3> QED BY <2>7, <1>1, <1>12 DEF Held, c
  <2>9. /\ pending' \in Seq(Nat) /\ Len(pending') = Len(pending) - k
        /\ Nearer(E, k, done, sent, pending')
    <3>1. k \in 0 .. Len(pending) BY <1>13
    <3>2. pending' = SubSeq(pending, k + 1, Len(pending)) BY <1>1, <2>3
    <3>3. done \in 0 .. Len(sent) BY <1>2 DEF n
    <3> QED BY <3>1, <3>2, <3>3, <1>2, <1>5, TakeLayout
  <2>10. PICK F : Layout(F, done, sent, pending') /\ \A i \in done .. n : F[i] = E[i] - k
    BY <2>9 DEF Nearer, n
  <2>11. n \in done .. n /\ done \in done .. n BY <1>2, <1>6
  <2>12. E[n] \in Int BY <2>11, <1>5 DEF Layout, n
  <2>13. EndsAt(F)'
    <3>1. F[n] = E[n] - k BY <2>10, <2>11
    <3>2. Len(pending) = E[n] \/ (closed /\ Len(pending) = E[n] - 1)
      BY <1>5 DEF EndsAt, n
    <3>3. Len(pending') = F[n] \/ (closed /\ Len(pending') = F[n] - 1)
      BY <3>1, <3>2, <2>9, <2>12, <1>13
    <3> QED BY <3>3, <1>1 DEF EndsAt, n
  <2>14. F[done] = 0 - (r + k)
    <3>1. F[done] = E[done] - k BY <2>10, <2>11
    <3> QED BY <3>1, <1>5, <1>13
  <2>15. Reading(F, r + k)'
    <3>1. frame'.saw_input <=> r + k > 0 BY <1>12, <2>4
    <3>2. r + k # 0 => done' < Len(sent') /\ r + k <= Size(sent', done' + 1)
      BY <1>1, <1>6, <2>4 DEF n, z, c
    <3>3. Layout(F, done', sent', pending') /\ F[done'] = 0 - (r + k) BY <2>10, <2>14, <1>1
    <3> QED BY <3>1, <3>2, <3>3, <2>8, <2>13 DEF Reading
  <2>16. pc' = "read" BY <1>1, <2>2
  <2>17. \E G : \E x \in Nat : Reading(G, x)' BY <2>15, <2>4
  <2> QED BY <2>9, <2>16, <2>17, <1>9, <1>10 DEF McpInv
<1> QED BY <1>15, <1>16

LEMMA ReadEofStep ==
    ASSUME McpInv, ReadEof
    PROVE  McpInv'
<1>1. /\ pc = "read" /\ pending = <<>>
      /\ pc' = IF frame.saw_input THEN "handle" ELSE "exit"
      /\ UNCHANGED <<sent, pending, closed, buffer, frame, done, lifecycle, answers>>
  BY DEF ReadEof, pipeVars
<1>2. /\ sent \in Sent /\ pending \in Seq(Nat) /\ done \in Nat /\ done <= Len(sent)
      /\ Len(sent) \in Nat /\ Len(pending) = 0
  BY <1>1, LenProperties, EmptySeq DEF McpInv, Sent
<1>3. AnswersInOrder' /\ Handshake'
  BY <1>1 DEF McpInv, AnswersInOrder, AnswersTo, Handshake, HandshakeOver, Msg
<1>4. /\ sent' \in Sent /\ done' \in Nat /\ done' <= Len(sent') /\ answers' \in Seq(Replies)
      /\ pending' \in Seq(Nat)
  BY <1>1, <1>2 DEF McpInv
<1>5. PICK E : \E r \in Nat : Reading(E, r) BY <1>1 DEF McpInv
<1>6. PICK r \in Nat : Reading(E, r) BY <1>5
<1>7. CASE frame.saw_input
  <2>1. r > 0 /\ done < Len(sent) /\ r <= Size(sent, done + 1) BY <1>6, <1>7 DEF Reading
  <2>2. /\ Layout(E, done, sent, pending) /\ E[done] = 0 - r /\ Held(r)
        /\ (0 = E[Len(sent)] \/ 0 = E[Len(sent)] - 1)
    BY <1>6, <1>2 DEF Reading, EndsAt
  <2>3. /\ E[done + 1] = Size(sent, done + 1) + 1 - r /\ E[done + 1] >= 1
        /\ \A k \in 1 .. Len(pending) : k < E[done + 1] => pending[k] = done + 1
        /\ E[done + 1] \in 1 .. Len(pending) => pending[E[done + 1]] = NEWLINE
    <3>1. sent \in Sent /\ pending \in Seq(Nat) /\ done \in Nat BY <1>2
    <3>2. Layout(E, done, sent, pending) /\ E[done] = 0 - r BY <2>2
    <3> QED BY <2>1, <3>1, <3>2, FirstNewline
  <2>4. done + 1 \in done .. Len(sent) /\ Len(sent) \in done .. Len(sent)
        /\ done + 1 \in 1 .. Len(sent)
    BY <2>1, <1>2
  <2>5. E[done + 1] \in Int /\ E[Len(sent)] \in Int BY <2>2, <2>4 DEF Layout
  <2>6. done + 1 = Len(sent)
    <3> SUFFICES ASSUME done + 1 < Len(sent) PROVE FALSE BY <2>1, <1>2
    <3>1. E[done + 1] < E[Len(sent)] BY <2>2, <2>4 DEF Layout
    <3> QED BY <3>1, <2>2, <2>3, <2>5
  <2>7. r = Size(sent, done + 1)
    <3>1. Size(sent, done + 1) \in Nat BY <2>4, <1>2, SizeType
    <3> DEFINE zz == Size(sent, done + 1)
    <3>2. E[done + 1] = zz + 1 - r /\ zz \in Nat /\ r <= zz BY <2>1, <2>3, <3>1
    <3>3. 0 = E[done + 1] \/ 0 = E[done + 1] - 1 BY <2>2, <2>6
    <3> HIDE DEF zz
    <3>4. r = zz BY <3>2, <3>3, <2>3, <2>5
    <3> QED BY <3>4 DEF zz
  <2>12. PICK G : G = [i \in done + 1 .. Len(sent) |-> 0] OBVIOUS
  <2>8. Layout(G, done + 1, sent, pending)
    <3>1. \A i \in done + 1 + 1 .. Len(sent) : FALSE BY <2>6, <1>2
    <3>2. \A i, j \in done + 1 .. Len(sent) : ~(i < j) BY <2>6, <1>2
    <3>3. G \in [done + 1 .. Len(sent) -> Int] BY <2>12
    <3> QED BY <3>1, <3>2, <3>3 DEF Layout
  <2>9. G[done + 1] = 0 /\ G[Len(sent)] = 0 BY <2>4, <2>6, <2>12, <1>2
  <2>10. Handling(G)'
    <3>0. Len(pending') = 0 /\ G[Len(sent')] = 0 BY <2>9, <1>1, <1>2
    <3>1. EndsAt(G)' BY <3>0 DEF EndsAt
    <3>3. done' < Len(sent') /\ Layout(G, done' + 1, sent', pending') /\ G[done' + 1] = 0
      BY <2>1, <2>8, <2>9, <1>1
    <3>2. Held(Size(sent, done + 1))' BY <2>2, <2>7, <1>1 DEF Held
    <3> QED BY <3>1, <3>2, <3>3 DEF Handling
  <2>11. pc' = "handle" BY <1>1, <1>7
  <2> QED BY <2>10, <2>11, <1>3, <1>4 DEF McpInv
<1>8. CASE ~frame.saw_input
  <2>1. pc' = "exit" BY <1>1, <1>8
  <2> QED BY <2>1, <1>3, <1>4 DEF McpInv
<1> QED BY <1>7, <1>8

LEMMA ReadFailsStep ==
    ASSUME McpInv, ReadFails
    PROVE  McpInv'
<1>1. /\ pc' = "exit"
      /\ UNCHANGED <<sent, pending, closed, buffer, frame, done, lifecycle, answers>>
  BY DEF ReadFails, pipeVars
<1>2. Handshake'
  BY <1>1 DEF McpInv, Handshake, HandshakeOver, Msg
<1> QED BY <1>1, <1>2 DEF McpInv

(* One more line among those counted.                                       *)
LEMMA AnswersToNext ==
    ASSUME NEW i \in Nat
    PROVE  /\ AnswersTo(i) \in Nat
           /\ AnswersTo(i + 1) = AnswersTo(i) + (IF Answered(sent[i + 1]) THEN 1 ELSE 0)
<1> DEFINE A(x) == {j \in 1 .. x : Answered(sent[j])}
<1>1. IsFiniteSet(1 .. i) /\ i + 1 \notin 1 .. i
  BY FS_Interval
<1>2. IsFiniteSet(A(i)) /\ i + 1 \notin A(i)
  BY <1>1, FS_Subset
<1>3. Cardinality(A(i)) \in Nat
  BY <1>2, FS_CardinalityType
<1>4. \A j : j \in 1 .. i + 1 <=> j \in 1 .. i \/ j = i + 1
  OBVIOUS
<1>5. CASE Answered(sent[i + 1])
  <2>1. A(i + 1) = A(i) \cup {i + 1} BY <1>4, <1>5
  <2>2. Cardinality(A(i) \cup {i + 1}) = Cardinality(A(i)) + 1 BY <1>2, FS_AddElement
  <2> QED BY <2>1, <2>2, <1>3, <1>5 DEF AnswersTo
<1>6. CASE ~Answered(sent[i + 1])
  <2>1. A(i + 1) = A(i) BY <1>4, <1>6
  <2> QED BY <2>1, <1>3, <1>6 DEF AnswersTo
<1> QED BY <1>5, <1>6

LEMMA AnswersToBound ==
    ASSUME NEW d \in Nat, NEW i \in 1 .. d, Answered(sent[i])
    PROVE  AnswersTo(i) \in 1 .. AnswersTo(d)
<1>1. IsFiniteSet(1 .. d) BY FS_Interval
<1> DEFINE A == {j \in 1 .. i : Answered(sent[j])}
           B == {j \in 1 .. d : Answered(sent[j])}
<1>2. A \subseteq B /\ i \in A
  <2>1. i \in 1 .. i /\ \A j \in 1 .. i : j \in 1 .. d OBVIOUS
  <2> QED BY <2>1
<1>3. IsFiniteSet(B) /\ IsFiniteSet(A) BY <1>1, <1>2, FS_Subset
<1>4. Cardinality(A) <= Cardinality(B) BY <1>2, <1>3, FS_Subset
<1>5. Cardinality(A) \in Nat /\ Cardinality(B) \in Nat BY <1>3, FS_CardinalityType
<1>6. Cardinality(A) # 0 BY <1>2, <1>3, FS_EmptySet
<1>7. AnswersTo(i) = Cardinality(A) /\ AnswersTo(d) = Cardinality(B) BY DEF AnswersTo
<1> HIDE DEF A, B
<1> QED BY <1>4, <1>5, <1>6, <1>7

IsTool(kind) == kind \in {"tool_result", "tool_error"}

LEMMA ServedKind ==
    ASSUME NEW m
    PROVE  Served(m) \in Kinds /\ (IsTool(Served(m)) => lifecycle = "Ready")
<1>1. CASE m.method = "initialize"
  <2>1. Served(m) = handle_initialize(m) BY <1>1, Zenon DEF Served
  <2> QED BY <2>1 DEF handle_initialize, Kinds, IsTool
<1>2. CASE m.method = "notifications/initialized"
  <2>1. Served(m) = "error -32600" BY <1>2, Zenon DEF Served
  <2> QED BY <2>1 DEF Kinds, IsTool
<1>3. CASE m.method = "ping"
  <2>1. Served(m) = "result" BY <1>3, Zenon DEF Served
  <2> QED BY <2>1 DEF Kinds, IsTool
<1>4. CASE m.method \notin {"initialize", "notifications/initialized", "ping"} /\ ~Ready
  <2>1. Served(m) = "error -32002" BY <1>4, Zenon DEF Served
  <2> QED BY <2>1 DEF Kinds, IsTool
<1>5. CASE m.method \notin {"initialize", "notifications/initialized", "ping"} /\ Ready
  <2>0. lifecycle = "Ready" BY <1>5 DEF Ready
  <2>1. CASE m.method = "tools/list"
    <3>1. Served(m) = "result" BY <1>5, <2>1, Zenon DEF Served
    <3> QED BY <3>1 DEF Kinds, IsTool
  <2>2. CASE m.method = "tools/call"
    <3>1. Served(m) = handle_tool_call(m.params) BY <1>5, <2>2, Zenon DEF Served
    <3>2. handle_tool_call(m.params) \in Kinds BY DEF handle_tool_call, Kinds
    <3> QED BY <3>1, <3>2, <2>0
  <2>3. CASE m.method # "tools/list" /\ m.method # "tools/call"
    <3>1. Served(m) = "error -32601" BY <1>5, <2>3, Zenon DEF Served
    <3> QED BY <3>1 DEF Kinds, IsTool
  <2> QED BY <2>1, <2>2, <2>3
<1> QED BY <1>1, <1>2, <1>3, <1>4, <1>5

(* The one answer a line gets, or none.                                     *)
AnswerOf(x, resp) ==
    \/ ~Answered(x) /\ resp = <<>>
    \/ /\ Answered(x)
       /\ \E a \in Replies :
             /\ resp = <<a>> /\ a.id = AnswerId(x)
             /\ IsTool(a.kind) => lifecycle = "Ready"

LEMMA OneAnswer ==
    ASSUME NEW x \in DOMAIN Messages, NEW id, NEW kind \in Kinds,
           Answered(x), id = AnswerId(x), IsTool(kind) => lifecycle = "Ready"
    PROVE  AnswerOf(x, Answer(id, kind))
<1> DEFINE a == [id |-> id, kind |-> kind]
<1>1. id \in Ids BY DEF AnswerId, Ids
<1>2. a \in Replies BY <1>1 DEF Replies
<1>3. a.id = id /\ a.kind = kind OBVIOUS
<1>4. Answer(id, kind) = <<a>> BY DEF Answer
<1> HIDE DEF a
<1> QED BY <1>2, <1>3, <1>4 DEF AnswerOf

LEMMA ErrorKinds ==
    /\ "error -32700" \in Kinds /\ "error -32600" \in Kinds /\ "error -32602" \in Kinds
    /\ ~IsTool("error -32700") /\ ~IsTool("error -32600") /\ ~IsTool("error -32602")
BY DEF Kinds, IsTool

LEMMA ResponseAnswers ==
    ASSUME NEW x \in DOMAIN Messages, Messages[x].size <= MAX_FRAME
    PROVE  AnswerOf(x, Response(Messages[x]))
<1>0. Messages[x].size \in Nat /\ MAX_FRAME \in Nat /\ ~(Messages[x].size > MAX_FRAME)
  BY McpAssumption DEF McpAssumption
<1> DEFINE m == Messages[x]
<1>1. CASE ~m.parses
  <2>1. Response(m) = Answer("null", "error -32700") BY <1>1, Zenon DEF Response
  <2>2. Answered(x) /\ AnswerId(x) = "null" BY <1>1, Zenon DEF Answered, AnswerId
  <2> QED BY <2>1, <2>2, OneAnswer, ErrorKinds
<1>2. CASE m.parses /\ (~Envelope(m) \/ ~(m.id = "none" \/ valid_request_id(m.id)))
  <2>1. Response(m) = Answer("null", "error -32600") BY <1>2, Zenon DEF Response
  <2>2. Answered(x) /\ AnswerId(x) = "null" BY <1>2, Zenon DEF Answered, AnswerId
  <2> QED BY <2>1, <2>2, OneAnswer, ErrorKinds
<1>3. CASE m.parses /\ Envelope(m) /\ m.id = "none"
  <2>1. Response(m) = <<>> BY <1>3, Zenon DEF Response
  <2>2. ~Answered(x) BY <1>0, <1>3, Zenon DEF Answered
  <2> QED BY <2>1, <2>2 DEF AnswerOf
<1>4. CASE m.parses /\ Envelope(m) /\ m.id # "none" /\ valid_request_id(m.id)
  <2>1. Answered(x) /\ AnswerId(x) = m.id BY <1>4, Zenon DEF Answered, AnswerId
  <2>2. CASE ~m.params.object
    <3>1. Response(m) = Answer(m.id, "error -32602") BY <1>4, <2>2, Zenon DEF Response
    <3> QED BY <3>1, <2>1, OneAnswer, ErrorKinds
  <2>3. CASE m.params.object
    <3>1. Response(m) = Answer(m.id, Served(m)) BY <1>4, <2>3, Zenon DEF Response
    <3>2. Served(m) \in Kinds /\ (IsTool(Served(m)) => lifecycle = "Ready") BY ServedKind
    <3> QED BY <3>1, <3>2, <2>1, OneAnswer
  <2> QED BY <2>2, <2>3
<1> QED BY <1>1, <1>2, <1>3, <1>4

(* A complete frame holds one line, whole.                                  *)
LEMMA FrameIsLine ==
    ASSUME McpInv, pc = "handle"
    PROVE  /\ done + 1 \in 1 .. Len(sent) /\ sent[done + 1] \in DOMAIN Messages
           /\ frame.too_large <=> Messages[sent[done + 1]].size > MAX_FRAME
           /\ ~frame.too_large => buffer # <<>> /\ Line = done + 1 /\ IsLine
<1>1. PICK E : Handling(E) BY DEF McpInv
<1>2. done < Len(sent) /\ Held(Size(sent, done + 1)) BY <1>1 DEF Handling
<1>3. done \in Nat /\ Len(sent) \in Nat /\ sent \in Sent BY LenProperties DEF McpInv, Sent
<1>4. done + 1 \in 1 .. Len(sent) BY <1>2, <1>3
<1>5. sent[done + 1] \in DOMAIN Messages BY <1>3, <1>4, ElementOfSeq DEF Sent
<1> DEFINE c == done + 1
           z == Size(sent, c)
<1>6. z \in Nat /\ z >= 1 BY <1>3, <1>4, SizeType
<1>7. z = Messages[sent[c]].size /\ z = Msg(c).size BY DEF Size, Msg
<1>8. c \in Nat BY <1>3
<1>9. (frame.too_large <=> z > MAX_FRAME) /\ buffer = IF z > MAX_FRAME THEN <<>> ELSE Units(c, z)
  BY <1>2 DEF Held
<1> HIDE DEF c, z
<1>10. ASSUME ~frame.too_large PROVE buffer # <<>> /\ Line = c /\ IsLine
  <2>1. buffer = Units(c, z) BY <1>9, <1>10
  <2>2. Units(c, z) \in Seq(Nat) /\ Len(Units(c, z)) = z /\ Units(c, z)[1] = c
    BY <1>6, <1>8, UnitsType
  <2>3. buffer # <<>> BY <2>1, <2>2, <1>6, EmptySeq
  <2>4. Line = c BY <2>1, <2>2 DEF Line
  <2> QED BY <2>1, <2>3, <2>4, <1>7 DEF IsLine
<1> QED BY <1>4, <1>5, <1>7, <1>9, <1>10 DEF c

LEMMA HandleFrameStep ==
    ASSUME McpInv, HandleFrame
    PROVE  McpInv'
<1>0. PICK c : c = done + 1 OBVIOUS
<1>00. PICK x : x = sent[c] OBVIOUS
<1>1. /\ pc = "handle" /\ done' = c /\ buffer' = <<>> /\ frame' = NewFrame
      /\ UNCHANGED <<sent, pending, closed>>
      /\ lifecycle' = IF ~frame.too_large /\ buffer # <<>> /\ IsLine
                      THEN lifecycleAfter(Msg(Line)) ELSE lifecycle
      /\ \/ answers' = answers \o FrameResponse /\ pc' = "read"
         \/ pc' = "exit" /\ answers' = answers
  BY <1>0 DEF HandleFrame, pipeVars
<1>2. /\ sent \in Sent /\ pending \in Seq(Nat) /\ done \in Nat /\ Len(sent) \in Nat
      /\ answers \in Seq(Replies) /\ AnswersInOrder /\ Handshake /\ MAX_FRAME \in Nat
  BY <1>1, LenProperties, McpAssumption DEF McpInv, Sent, McpAssumption
<1>3. /\ c \in 1 .. Len(sent) /\ x \in DOMAIN Messages
      /\ frame.too_large <=> Messages[x].size > MAX_FRAME
      /\ ~frame.too_large => buffer # <<>> /\ Line = c /\ IsLine
  BY <1>0, <1>00, <1>1, FrameIsLine
<1>4. AnswerOf(x, FrameResponse)
  <2>1. CASE frame.too_large
    <3>1. FrameResponse = Answer("null", "error -32700") BY <2>1, Zenon DEF FrameResponse
    <3>2. Messages[x].size > MAX_FRAME BY <2>1, <1>3
    <3>3. ~(Messages[x].size <= MAX_FRAME)
      BY <3>2, <1>2, <1>3, McpAssumption DEF McpAssumption
    <3>4. Answered(x) /\ AnswerId(x) = "null" BY <3>2, <3>3, Zenon DEF Answered, AnswerId
    <3> QED BY <3>1, <3>4, <1>3, OneAnswer, ErrorKinds
  <2>2. CASE ~frame.too_large
    <3>1. buffer # <<>> /\ Line = c /\ IsLine BY <2>2, <1>3
    <3>2. FrameResponse = Response(Messages[x])
      BY <3>1, <2>2, <1>00, Zenon DEF FrameResponse, Msg
    <3>3. Messages[x].size <= MAX_FRAME BY <2>2, <1>2, <1>3, McpAssumption DEF McpAssumption
    <3> QED BY <3>2, <3>3, <1>3, ResponseAnswers
  <2> QED BY <2>1, <2>2
<1>5. lifecycle' = lifecycle \/ (/\ Messages[x].size <= MAX_FRAME /\ lifecycle' = lifecycleAfter(Messages[x]))
  <2>1. CASE frame.too_large BY <2>1, <1>1
  <2>2. CASE ~frame.too_large
    <3>1. buffer # <<>> /\ Line = c /\ IsLine BY <2>2, <1>3
    <3>2. lifecycle' = lifecycleAfter(Messages[x]) BY <3>1, <2>2, <1>1, <1>00, Zenon DEF Msg
    <3>3. Messages[x].size <= MAX_FRAME BY <2>2, <1>2, <1>3, McpAssumption DEF McpAssumption
    <3> QED BY <3>2, <3>3
  <2> QED BY <2>1, <2>2
<1>6. \/ lifecycle' = lifecycle
      \/ lifecycle' = "AwaitingInitialized" /\ Accepted(Messages[x])
      \/ lifecycle' = "Ready" /\ lifecycle = "AwaitingInitialized" /\ Confirms(Messages[x])
  <2> SUFFICES ASSUME Messages[x].size <= MAX_FRAME,
                      lifecycle' = lifecycleAfter(Messages[x])
               PROVE  \/ lifecycle' = lifecycle
                      \/ lifecycle' = "AwaitingInitialized" /\ Accepted(Messages[x])
                      \/ /\ lifecycle' = "Ready" /\ lifecycle = "AwaitingInitialized"
                         /\ Confirms(Messages[x])
    BY <1>5
  <2> QED BY Zenon DEF lifecycleAfter, Initializes, Accepted, Confirms
<1>7. \A i \in 1 .. done : Msg(i)' = Msg(i) /\ i \in 1 .. c /\ i < c
  BY <1>0, <1>1, <1>2 DEF Msg
<1>8. Msg(c)' = Messages[x] /\ c \in 1 .. c
  <2>1. sent'[c] = x BY <1>00, <1>1
  <2>2. c \in 1 .. c BY <1>0, <1>2
  <2> QED BY <2>1, <2>2 DEF Msg
<1>9. done' = c /\ c \in Nat BY <1>0, <1>1, <1>2
<1>10. HandshakeOver => HandshakeOver'
  <2> QED BY <1>7, <1>9 DEF HandshakeOver
<1>11. (lifecycle = "Ready" \/ \E a \in DOMAIN answers : RanATool(answers[a])) => HandshakeOver'
  BY <1>2, <1>10 DEF Handshake
<1>12. lifecycle' = "AwaitingInitialized" => \E i \in 1 .. done' : Accepted(Msg(i)')
  <2>1. CASE lifecycle' = lifecycle BY <2>1, <1>2, <1>7, <1>9 DEF Handshake
  <2>2. CASE lifecycle' # lifecycle
    <3> SUFFICES ASSUME lifecycle' = "AwaitingInitialized"
                 PROVE  \E i \in 1 .. done' : Accepted(Msg(i)')
      OBVIOUS
    <3>1. Accepted(Messages[x]) BY <2>2, <1>6
    <3> QED BY <3>1, <1>8, <1>9
  <2> QED BY <2>1, <2>2
<1>13. lifecycle' = "Ready" => HandshakeOver'
  <2>1. CASE lifecycle' = lifecycle BY <2>1, <1>11
  <2>2. CASE lifecycle' # lifecycle
    <3> SUFFICES ASSUME lifecycle' = "Ready" PROVE HandshakeOver' OBVIOUS
    <3>1. lifecycle = "AwaitingInitialized" /\ Confirms(Messages[x]) BY <2>2, <1>6
    <3>2. PICK i \in 1 .. done : Accepted(Msg(i)) BY <3>1, <1>2 DEF Handshake
    <3>3. i \in 1 .. done' /\ c \in 1 .. done' /\ i < c /\ Accepted(Msg(i)') /\ Confirms(Msg(c)')
      BY <3>1, <3>2, <1>7, <1>8, <1>9
    <3> QED BY <3>3, Zenon DEF HandshakeOver
  <2> QED BY <2>1, <2>2
<1>14. CASE pc' = "exit" /\ answers' = answers
  <2>1. Handshake' BY <1>11, <1>12, <1>13, <1>14 DEF Handshake
  <2>2. done' \in Nat /\ done' <= Len(sent') BY <1>1, <1>2, <1>3
  <2> QED BY <2>1, <2>2, <1>1, <1>2, <1>14 DEF McpInv
<1>15. CASE answers' = answers \o FrameResponse /\ pc' = "read"
  <2>1. PICK E : Handling(E) BY <1>1 DEF McpInv
  <2>2. Reading(E, 0)'
    <3>1. Held(0)'
      <4>1. ~(0 > MAX_FRAME) BY <1>2
      <4>2. frame'.too_large = FALSE BY <1>1 DEF NewFrame
      <4>3. buffer' = Units(done' + 1, 0) BY <1>1, NoUnits
      <4> QED BY <4>1, <4>2, <4>3 DEF Held
    <3>2. frame'.saw_input = FALSE BY <1>1 DEF NewFrame
    <3>3. Layout(E, done', sent', pending') /\ E[done'] = 0 - 0 BY <2>1, <1>0, <1>1 DEF Handling
    <3>4. EndsAt(E)' BY <2>1, <1>1 DEF Handling, EndsAt
    <3> QED BY <3>1, <3>2, <3>3, <3>4 DEF Reading
  <2>3. \E G : \E r \in Nat : Reading(G, r)' BY <2>2
  <2>4. /\ AnswersTo(done) \in Nat
        /\ AnswersTo(c) = AnswersTo(done) + (IF Answered(x) THEN 1 ELSE 0)
    BY <1>0, <1>00, <1>2, AnswersToNext
  <2>5. Len(answers) = AnswersTo(done)
        /\ \A i \in 1 .. done : Answered(sent[i]) => answers[AnswersTo(i)].id = AnswerId(sent[i])
    BY <1>2 DEF AnswersInOrder
  <2>6. (\A i : AnswersTo(i)' = AnswersTo(i)) /\ AnswersTo(done)' = AnswersTo(c)
    BY <1>1 DEF AnswersTo
  <2>7. done' \in Nat /\ done' <= Len(sent') BY <1>1, <1>2, <1>3
  <2>8. CASE ~Answered(x) /\ FrameResponse = <<>>
    <3>1. answers' = answers BY <2>8, <1>2, <1>15, ConcatEmptySeq
    <3>2. Handshake' BY <3>1, <1>11, <1>12, <1>13 DEF Handshake
    <3>3. AnswersTo(c) = AnswersTo(done) BY <2>4, <2>8
    <3>4. \A i \in 1 .. c : i \in 1 .. done \/ i = c BY <1>0, <1>2
    <3>5. AnswersInOrder'
      <4>1. Len(answers') = AnswersTo(done)' BY <3>1, <3>3, <2>5, <2>6, <1>1
      <4>2. \A i \in 1 .. c : Answered(sent[i]) => answers[AnswersTo(i)].id = AnswerId(sent[i])
        BY <3>4, <2>5, <2>8, <1>00
      <4> QED BY <4>1, <4>2, <3>1, <2>6, <1>1 DEF AnswersInOrder
    <3> QED BY <3>1, <3>2, <3>5, <2>3, <2>7, <1>1, <1>2, <1>15 DEF McpInv
  <2>9. CASE Answered(x) /\ \E a \in Replies :
               /\ FrameResponse = <<a>> /\ a.id = AnswerId(x)
               /\ IsTool(a.kind) => lifecycle = "Ready"
    <3>1. PICK a \in Replies : /\ FrameResponse = <<a>> /\ a.id = AnswerId(x)
                               /\ IsTool(a.kind) => lifecycle = "Ready"
      BY <2>9
    <3> DEFINE l == Len(answers)
    <3>2. /\ answers' \in Seq(Replies) /\ Len(answers') = l + 1
          /\ (\A i \in 1 .. l : answers'[i] = answers[i]) /\ answers'[l + 1] = a
      <4>1. answers' = Append(answers, a) BY <3>1, <1>2, <1>15, AppendIsConcat
      <4> QED BY <4>1, <1>2, AppendProperties
    <3>3. l = AnswersTo(done) /\ AnswersTo(c) = l + 1 /\ l \in Nat BY <2>4, <2>5, <2>9
    <3>4. DOMAIN answers = 1 .. l /\ DOMAIN answers' = 1 .. l + 1
      <4>1. DOMAIN answers' = 1 .. Len(answers') BY <3>2, LenProperties
      <4>2. DOMAIN answers = 1 .. Len(answers) BY <1>2, LenProperties
      <4> QED BY <4>1, <4>2, <3>2
    <3>5. ASSUME NEW b \in DOMAIN answers', RanATool(answers'[b])
          PROVE  HandshakeOver'
      <4> HIDE DEF l
      <4>1. CASE b \in 1 .. l
        <5>1. b \in DOMAIN answers /\ RanATool(answers[b]) BY <4>1, <3>2, <3>4, <3>5
        <5> QED BY <5>1, <1>11
      <4>2. CASE b = l + 1
        <5>1. IsTool(a.kind) BY <4>2, <3>2, <3>5 DEF RanATool, IsTool
        <5> QED BY <5>1, <3>1, <1>11
      <4>3. b \in 1 .. l \/ b = l + 1 BY <3>3, <3>4
      <4> QED BY <4>1, <4>2, <4>3
    <3>6. Handshake' BY <3>5, <1>12, <1>13 DEF Handshake
    <3>7. ASSUME NEW i \in 1 .. c, Answered(sent[i])
          PROVE  answers'[AnswersTo(i)].id = AnswerId(sent[i])
      <4>1. CASE i \in 1 .. done
        <5>1. AnswersTo(i) \in 1 .. l BY <4>1, <3>3, <3>7, <1>2, AnswersToBound
        <5> QED BY <5>1, <4>1, <3>2, <3>7, <2>5
      <4>2. CASE i = c BY <4>2, <3>1, <3>2, <3>3, <1>00
      <4>3. i \in 1 .. done \/ i = c BY <1>0, <1>2
      <4> QED BY <4>1, <4>2, <4>3
    <3>8. AnswersInOrder'
      <4>1. Len(answers') = AnswersTo(done)' BY <3>2, <3>3, <2>6, <1>1
      <4> QED BY <4>1, <3>7, <2>6, <1>1 DEF AnswersInOrder
    <3> QED BY <3>2, <3>6, <3>8, <2>3, <2>7, <1>1, <1>2, <1>15 DEF McpInv
  <2> QED BY <2>8, <2>9, <1>4 DEF AnswerOf
<1> QED BY <1>1, <1>14, <1>15

(* For any messages of any lengths, cut into chunks anywhere: every line is *)
(* answered at most once, in the order sent and with its own id, and no     *)
(* tool answers before the handshake (read_frame, handle and main).         *)
THEOREM EveryLineAnsweredOnce == McpSpec => []OneAnswerEach
<1>1. McpInit => McpInv
  <2> SUFFICES ASSUME McpInit PROVE McpInv OBVIOUS
  <2>1. /\ sent = <<>> /\ pending = <<>> /\ buffer = <<>> /\ frame = NewFrame /\ pc = "read"
        /\ done = 0 /\ lifecycle = "Uninitialized" /\ answers = <<>>
    BY DEF McpInit
  <2>2. /\ sent \in Sent /\ pending \in Seq(Nat) /\ answers \in Seq(Replies)
        /\ Len(sent) = 0 /\ Len(pending) = 0 /\ Len(answers) = 0
    BY <2>1, EmptySeq DEF Sent
  <2>3. PICK E : E = [i \in 0 .. 0 |-> 0] OBVIOUS
  <2>4. Layout(E, done, sent, pending)
    <3>1. E \in [0 .. 0 -> Int] BY <2>3
    <3>2. \A i \in 0 + 1 .. 0 : FALSE OBVIOUS
    <3>3. \A i, j \in 0 .. 0 : ~(i < j) OBVIOUS
    <3> QED BY <3>1, <3>2, <3>3, <2>1, <2>2 DEF Layout
  <2>5. Reading(E, 0)
    <3>1. E[0] = 0 BY <2>3
    <3>2. MAX_FRAME \in Nat BY McpAssumption DEF McpAssumption
    <3>3. Held(0) BY <2>1, <3>2, NoUnits DEF Held, NewFrame
    <3>4. EndsAt(E) BY <2>2, <3>1 DEF EndsAt
    <3> QED BY <2>1, <2>4, <3>1, <3>3, <3>4 DEF Reading, NewFrame
  <2>6. AnswersInOrder
    <3>1. {j \in 1 .. 0 : Answered(sent[j])} = {} OBVIOUS
    <3>2. AnswersTo(done) = 0 BY <3>1, <2>1, FS_EmptySet DEF AnswersTo
    <3> QED BY <3>2, <2>1, <2>2 DEF AnswersInOrder
  <2>7. DOMAIN answers = {} BY <2>1
  <2>8. Handshake BY <2>1, <2>7 DEF Handshake
  <2> QED BY <2>1, <2>2, <2>5, <2>6, <2>8 DEF McpInv
<1>2. ASSUME McpInv, [McpNext]_mcpVars PROVE McpInv'
  <2>1. CASE UNCHANGED mcpVars
    BY <1>2, <2>1 DEF mcpVars, pipeVars, McpInv, Reading, Handling, Held, EndsAt, AnswersInOrder,
                      AnswersTo, Handshake, HandshakeOver, Msg
  <2> QED BY <1>2, <2>1, SendStep, CloseStep, ReadChunkStep, ReadEofStep, ReadFailsStep,
             HandleFrameStep DEF McpNext, Server
<1>3. McpInv => OneAnswerEach
  BY DEF McpInv, OneAnswerEach, AnswersInOrder, Handshake, HandshakeOver
<1> QED BY <1>1, <1>2, <1>3, PTL DEF McpSpec

=============================================================================
