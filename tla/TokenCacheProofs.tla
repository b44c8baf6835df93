--------------------------- MODULE TokenCacheProofs --------------------------
(***************************************************************************)
(* For any number of workers, any lifetime and any margin: the caches find *)
(* no value past its lifetime, the file keeps finding what it has found    *)
(* once, and no worker returns what another one has stored.                *)
(***************************************************************************)
EXTENDS TokenCache, TLAPS

Positions == {"idle", "look1", "look2", "looked", "enter", "fetch", "store1", "store2"}
Maybe == Values \union {NoVal}
Calls == [at : Positions, want : Keys, key : Keys, force : BOOLEAN,
          found : Maybe, token : Maybe, fetched : SUBSET Values]

\* The two ways in which an entry of NativeMemory notes its end, and the one of
\* a block of NativeFile.
CachesInv ==
    \A k \in Keys :
        /\ memory[k] # NoBlock => memory[k].exp = Ttl \/ memory[k].exp = memory[k].at + Ttl
        /\ block[k] # NoBlock => block[k].exp = block[k].at + Ttl /\ block[k].at <= now

\* A worker that stores has a value, and has fetched it itself.
CallsInv ==
    /\ call \in [Workers -> Calls]
    /\ result \in [Workers -> Maybe]
    /\ \A w \in Workers : call[w].at \in {"store1", "store2"} =>
          /\ call[w].found # NoVal
          /\ call[w].key = call[w].want => call[w].found \in call[w].fetched

IInv == TypeOK /\ CachesInv /\ CallsInv

------------------------------------------------------------------------------
\* The time to live is never longer than the lifetime.
LEMMA TtlBounds == Ttl \in Nat /\ Ttl <= Lifetime
  BY TimesAssumption DEF Ttl, decrement_expires_in

LEMMA InitIInv == Init => IInv
<1> SUFFICES ASSUME Init PROVE IInv
  OBVIOUS
<1>1. /\ NoBlock \in Blocks /\ NoBlock.val = NoVal
      /\ Idle \in Calls /\ Idle.at = "idle"
      /\ NoVal \in Maybe
  BY DEF NoBlock, Blocks, Idle, Calls, Positions, Maybe, Keys
<1>2. /\ call \in [Workers -> Calls] /\ result \in [Workers -> Maybe]
      /\ \A w \in Workers : call[w] = Idle
  BY <1>1 DEF Init
<1>3. CallsInv
  BY <1>1, <1>2 DEF CallsInv
<1>4. /\ memory \in [Keys -> Blocks] /\ block \in [Keys -> Blocks]
      /\ \A k \in Keys : memory[k] = NoBlock /\ block[k] = NoBlock
  BY <1>1 DEF Init
<1>5. pointer \in [Keys -> BOOLEAN] /\ \A k \in Keys : pointer[k] <=> block[k].val # NoVal
  BY <1>1, <1>4 DEF Init
<1>6. CachesInv
  BY <1>4 DEF CachesInv
<1>7. \A w \in Workers :
        /\ call[w].at \in Positions
        /\ call[w].key \in Keys /\ call[w].want \in Keys
        /\ call[w].found \in Maybe
        /\ result[w] \in Maybe
  BY <1>1, <1>2 DEF Calls
<1>8. TypeOK
  BY <1>4, <1>5, <1>7, TimesAssumption, BoundsAssumption DEF Init, TypeOK, Positions, Maybe
<1> QED BY <1>3, <1>6, <1>8 DEF IInv

\* The part of TypeOK that is about calls follows from CallsInv.
LEMMA TypedCalls ==
    CallsInv => \A w \in Workers :
        /\ call[w].at \in {"idle", "look1", "look2", "looked", "enter", "fetch",
                           "store1", "store2"}
        /\ call[w].key \in Keys /\ call[w].want \in Keys
        /\ call[w].found \in Values \union {NoVal}
        /\ result[w] \in Values \union {NoVal}
  BY DEF CallsInv, Calls, Positions, Maybe

\* A step of a worker that gives its call the value rec.
LEMMA CallBecomes ==
    ASSUME IInv, NEW w \in Workers, NEW rec \in Calls,
           call' = [call EXCEPT ![w] = rec],
           rec.at \in {"store1", "store2"} =>
               /\ rec.found # NoVal
               /\ rec.key = rec.want => rec.found \in rec.fetched,
           result' \in [Workers -> Maybe]
    PROVE  CallsInv'
  BY DEF IInv, CallsInv

\* What Return does to a call: it ends, or goes on with the url of a ticket.
LEMMA ReturnStep ==
    ASSUME IInv, NEW w \in Workers, NEW v \in Maybe, Return(w, v)
    PROVE  /\ CallsInv'
           /\ result' \in [Workers -> Maybe]
           /\ \A u \in Workers : result'[u] # result[u] =>
                 u = w /\ call[w].key = call[w].want /\ result'[u] = v
<1>1. call[w] \in Calls /\ call \in [Workers -> Calls] /\ result \in [Workers -> Maybe]
  BY DEF IInv, CallsInv
<1>2. CASE call[w].key = call[w].want
  <2> DEFINE rec == [Idle EXCEPT !.fetched = call[w].fetched]
  <2>1. result' = [result EXCEPT ![w] = v] /\ call' = [call EXCEPT ![w] = rec]
    BY <1>2 DEF Return
  <2>2. rec \in Calls /\ rec.at = "idle"
    BY <1>1 DEF Idle, Calls, Positions, Maybe, Keys
  <2>3. result' \in [Workers -> Maybe]
    BY <1>1, <2>1
  <2> HIDE DEF rec
  <2>4. CallsInv'
    BY <2>1, <2>2, <2>3, CallBecomes
  <2> QED BY <1>1, <1>2, <2>1, <2>3, <2>4
<1>3. CASE call[w].key # call[w].want
  <2> DEFINE rec == [call[w] EXCEPT !.key = call[w].want, !.token = v, !.at = "fetch"]
  <2>1. result' = result
        /\ call' = [call EXCEPT ![w].key = call[w].want, ![w].token = v, ![w].at = "fetch"]
    BY <1>3 DEF Return
  <2>2. call' = [call EXCEPT ![w] = rec]
    BY <1>1, <2>1 DEF Calls
  <2>3. rec \in Calls /\ rec.at = "fetch"
    BY <1>1 DEF Calls, Positions
  <2> HIDE DEF rec
  <2>4. CallsInv'
    BY <1>1, <2>1, <2>2, <2>3, CallBecomes
  <2> QED BY <1>1, <2>1, <2>4
<1> QED BY <1>2, <1>3

\* What a look-up returns is a value or nothing.
LEMMA Found ==
    ASSUME IInv, NEW k \in Keys
    PROVE  MemoryGet(k) \in Maybe /\ FileGet(k) \in Maybe
  BY DEF IInv, TypeOK, Blocks, Maybe, MemoryGet, FileGet, BlockRead, NoBlock

------------------------------------------------------------------------------
\* The two action properties, of one step.
Fresh == \A w \in Workers :
            result'[w] # result[w] => result'[w] \in {NoVal} \union call[w].fetched
Stays == \A k \in Keys :
            FileGet(k) # NoVal /\ now' < block[k].exp => FileGet(k)' # NoVal

\* Steps of a worker that do not touch the caches.
LEMMA CachesUntouched ==
    ASSUME IInv, UNCHANGED <<now, memory, fileVars, page, restarts>>,
           fetches' \in 0..MaxFetch, CallsInv'
    PROVE  IInv' /\ Stays
<1>1. UNCHANGED <<now, memory, pointer, block, page, restarts>>
  BY DEF fileVars
<1>2. CachesInv'
  BY <1>1 DEF IInv, CachesInv
<1>3. \A w \in Workers :
        /\ call'[w].at \in {"idle", "look1", "look2", "looked", "enter", "fetch",
                            "store1", "store2"}
        /\ call'[w].key \in Keys /\ call'[w].want \in Keys
        /\ call'[w].found \in Values \union {NoVal}
        /\ result'[w] \in Values \union {NoVal}
  BY DEF CallsInv, Calls, Positions, Maybe
<1>4. TypeOK'
  BY <1>1, <1>3 DEF IInv, TypeOK
<1>5. \A k \in Keys : FileGet(k)' = FileGet(k)
  BY <1>1 DEF FileGet, BlockRead, BucketSeen, Valid
<1> QED BY <1>2, <1>4, <1>5 DEF IInv, Stays

LEMMA CallSteps ==
    ASSUME IInv, NEW w \in Workers, Call(w) \/ LookInMemory(w) \/ BuildUrl(w)
    PROVE  IInv' /\ Fresh /\ Stays
<1>1. /\ call[w] \in Calls /\ call \in [Workers -> Calls] /\ result \in [Workers -> Maybe]
      /\ fetches \in 0..MaxFetch
  BY DEF IInv, TypeOK, CallsInv
<1>2. /\ UNCHANGED <<now, memory, fileVars, page, restarts>>
      /\ result' = result /\ fetches' = fetches
  BY DEF Call, LookInMemory, BuildUrl
<1>3. \E rec \in Calls : /\ call' = [call EXCEPT ![w] = rec]
                         /\ rec.at \notin {"store1", "store2"}
  <2>1. CASE Call(w)
    <3>1. PICK want \in Keys, force \in BOOLEAN :
             call' = [call EXCEPT ![w] =
                 [Idle EXCEPT !.at = IF force THEN "enter" ELSE "look1",
                              !.want = want, !.key = want, !.force = force]]
      BY <2>1 DEF Call
    <3> DEFINE rec == [Idle EXCEPT !.at = IF force THEN "enter" ELSE "look1",
                                   !.want = want, !.key = want, !.force = force]
    <3>2. rec \in Calls /\ rec.at \in {"enter", "look1"}
      BY DEF Idle, Calls, Positions, Maybe, Keys
    <3> QED BY <3>1, <3>2
  <2>2. CASE LookInMemory(w)
    <3> DEFINE v == MemoryGet(call[w].key)
               rec == [call[w] EXCEPT !.at = IF v = NoVal THEN "look2" ELSE "looked",
                                      !.found = v]
    <3>1. v \in Maybe
      BY <1>1, Found DEF Calls
    <3>2. call' = [call EXCEPT ![w] = rec]
      BY <1>1, <2>2 DEF LookInMemory, Calls
    <3> HIDE DEF v
    <3>3. rec \in Calls /\ rec.at \in {"look2", "looked"}
      BY <1>1, <3>1 DEF Calls, Positions
    <3> QED BY <3>2, <3>3
  <2>3. CASE BuildUrl(w)
    <3> DEFINE rec == [call[w] EXCEPT
                          !.key = "token",
                          !.at = IF call[w].key = "token" THEN "fetch"
                                 ELSE IF call[w].force THEN "enter" ELSE "look1"]
    <3>1. call' = [call EXCEPT ![w] = rec]
      BY <1>1, <2>3 DEF BuildUrl, Calls
    <3>2. rec \in Calls /\ rec.at \in {"fetch", "enter", "look1"}
      BY <1>1 DEF Calls, Positions, Keys
    <3> QED BY <3>1, <3>2
  <2> QED BY <2>1, <2>2, <2>3
<1>4. CallsInv'
  BY <1>1, <1>2, <1>3, CallBecomes
<1> QED BY <1>1, <1>2, <1>4, CachesUntouched DEF Fresh

LEMMA AfterLookStep ==
    ASSUME IInv, NEW w \in Workers, AfterLook(w)
    PROVE  IInv' /\ Fresh /\ Stays
<1>1. /\ call[w] \in Calls /\ call \in [Workers -> Calls] /\ result \in [Workers -> Maybe]
      /\ fetches' \in 0..MaxFetch
      /\ UNCHANGED <<now, memory, fileVars, page, restarts>>
  BY DEF AfterLook, IInv, TypeOK, CallsInv
<1>2. CASE ReturnsAtOnce(call[w].found)
  <2>1. Return(w, NoVal)
    BY <1>2 DEF AfterLook, ReturnsAtOnce
  <2> QED BY <1>1, <2>1, ReturnStep, CachesUntouched DEF Fresh, Maybe
<1>3. CASE ~ReturnsAtOnce(call[w].found)
  <2> DEFINE rec == [call[w] EXCEPT !.at = "enter"]
  <2>1. call' = [call EXCEPT ![w] = rec] /\ result' = result
    BY <1>1, <1>3 DEF AfterLook, Calls
  <2>2. rec \in Calls /\ rec.at = "enter"
    BY <1>1 DEF Calls, Positions
  <2> HIDE DEF rec
  <2>3. CallsInv'
    BY <1>1, <2>1, <2>2, CallBecomes
  <2> QED BY <1>1, <2>1, <2>3, CachesUntouched DEF Fresh
<1> QED BY <1>2, <1>3

LEMMA FetchSteps ==
    ASSUME IInv, NEW w \in Workers, FetchSucceeds(w) \/ FetchFails(w)
    PROVE  IInv' /\ Fresh /\ Stays
<1>1. /\ call[w] \in Calls /\ call \in [Workers -> Calls] /\ result \in [Workers -> Maybe]
      /\ fetches \in 0..MaxFetch /\ MaxFetch \in Nat
      /\ UNCHANGED <<now, memory, fileVars, page, restarts>>
  BY BoundsAssumption DEF FetchSucceeds, FetchFails, IInv, TypeOK, CallsInv
<1>2. CASE FetchFails(w)
  <2>1. Return(w, NoVal) /\ fetches' = fetches
    BY <1>2 DEF FetchFails
  <2> QED BY <1>1, <2>1, ReturnStep, CachesUntouched DEF Fresh, Maybe
<1>3. CASE FetchSucceeds(w)
  <2> DEFINE v == fetches + 1
             rec == [call[w] EXCEPT !.at = "store1", !.found = v,
                        !.fetched = IF call[w].key = call[w].want THEN @ \union {v} ELSE @]
  <2>1. v \in Values /\ v # NoVal /\ fetches' = v /\ v \in 0..MaxFetch
    BY <1>1, <1>3 DEF FetchSucceeds, Values, NoVal
  <2>2. call' = [call EXCEPT ![w] = rec] /\ result' = result
    BY <1>1, <1>3 DEF FetchSucceeds, Calls
  <2> HIDE DEF v
  <2>3. /\ rec \in Calls /\ rec.at = "store1" /\ rec.found = v
        /\ rec.key = rec.want => v \in rec.fetched
    BY <1>1, <2>1 DEF Calls, Positions, Maybe
  <2> HIDE DEF rec
  <2>4. CallsInv'
    BY <1>1, <2>1, <2>2, <2>3, CallBecomes
  <2> QED BY <1>1, <2>1, <2>2, <2>4, CachesUntouched DEF Fresh
<1> QED BY <1>2, <1>3

\* A look into the file leaves fpr_ on a page that is not the bucket of a key
\* the file has found.
LEMMA LookInFileStep ==
    ASSUME IInv, NEW w \in Workers, LookInFile(w)
    PROVE  IInv' /\ Fresh /\ Stays
<1> DEFINE key == call[w].key
           rec == [call[w] EXCEPT !.at = "looked", !.found = FileGet(key)]
<1>1. /\ call[w] \in Calls /\ call \in [Workers -> Calls] /\ result \in [Workers -> Maybe]
      /\ key \in Keys
      /\ UNCHANGED <<now, memory, pointer, block, result, fetches, restarts>>
      /\ page' = PageAfterRead(key)
  BY DEF LookInFile, fileVars, IInv, CallsInv, Calls
<1>2. FileGet(key) \in Maybe
  BY <1>1, Found
<1>3. call' = [call EXCEPT ![w] = rec]
  BY <1>1 DEF LookInFile, Calls
<1>4. rec \in Calls /\ rec.at = "looked"
  BY <1>1, <1>2 DEF Calls, Positions
<1> HIDE DEF rec
<1>5. CallsInv'
  BY <1>1, <1>3, <1>4, CallBecomes
<1>6. CachesInv'
  BY <1>1 DEF IInv, CachesInv
<1>7. TypeOK'
  <2>1. page' \in Keys \union {"none", "blocks"}
    BY <1>1 DEF PageAfterRead
  <2>2. \A u \in Workers :
          /\ call'[u].at \in {"idle", "look1", "look2", "looked", "enter", "fetch",
                              "store1", "store2"}
          /\ call'[u].key \in Keys /\ call'[u].want \in Keys
          /\ call'[u].found \in Values \union {NoVal}
          /\ result'[u] \in Values \union {NoVal}
    BY <1>5 DEF CallsInv, Calls, Positions, Maybe
  <2> QED BY <1>1, <2>1, <2>2 DEF IInv, TypeOK
<1>8. Stays
  <2> SUFFICES ASSUME NEW k \in Keys, FileGet(k) # NoVal PROVE FileGet(k)' # NoVal
    BY DEF Stays
  <2>1. page # k /\ pointer[k]
    BY DEF FileGet, BlockRead, BucketSeen, Valid, NoBlock
  <2>2. page' # k
    BY <1>1, <2>1 DEF PageAfterRead, BucketSeen, Keys
  <2>3. FileGet(k)' = FileGet(k)
    BY <1>1, <2>1, <2>2 DEF FileGet, BlockRead, BucketSeen, Valid
  <2> QED BY <2>3
<1> QED BY <1>1, <1>5, <1>6, <1>7, <1>8 DEF IInv, Fresh

LEMMA StoreInMemoryStep ==
    ASSUME IInv, NEW w \in Workers, StoreInMemory(w)
    PROVE  IInv' /\ Fresh /\ Stays
<1> DEFINE key == call[w].key
           v == call[w].found
           rec == [call[w] EXCEPT !.at = "store2"]
           entry == [val |-> v,
                     exp |-> IF memory[key] = NoBlock THEN Ttl ELSE now + Ttl,
                     at |-> now]
<1>1. /\ call[w] \in Calls /\ call \in [Workers -> Calls] /\ result \in [Workers -> Maybe]
      /\ key \in Keys /\ v \in Maybe /\ v # NoVal
      /\ key = call[w].want => v \in call[w].fetched
      /\ now \in Nat /\ Ttl \in Nat
      /\ memory \in [Keys -> Blocks]
      /\ UNCHANGED <<now, pointer, block, page, result, fetches, restarts>>
  BY TtlBounds, TimesAssumption
  DEF StoreInMemory, fileVars, IInv, TypeOK, CallsInv, Calls
<1>2. call' = [call EXCEPT ![w] = rec] /\ memory' = [memory EXCEPT ![key] = entry]
  BY <1>1 DEF StoreInMemory, MemorySet, Calls
<1>3. /\ rec \in Calls /\ rec.at = "store2" /\ rec.found = v
      /\ rec.key = key /\ rec.want = call[w].want /\ rec.fetched = call[w].fetched
  BY <1>1 DEF Calls, Positions
<1>4. /\ entry \in Blocks
      /\ entry.exp = Ttl \/ entry.exp = entry.at + Ttl
  BY <1>1 DEF Blocks, Maybe
<1> HIDE DEF rec, entry
<1>5. CallsInv'
  BY <1>1, <1>2, <1>3, CallBecomes
<1>6. CachesInv'
  BY <1>1, <1>2, <1>4 DEF IInv, CachesInv
<1>7. TypeOK'
  <2>1. \A u \in Workers :
          /\ call'[u].at \in {"idle", "look1", "look2", "looked", "enter", "fetch",
                              "store1", "store2"}
          /\ call'[u].key \in Keys /\ call'[u].want \in Keys
          /\ call'[u].found \in Values \union {NoVal}
          /\ result'[u] \in Values \union {NoVal}
    BY <1>5 DEF CallsInv, Calls, Positions, Maybe
  <2>2. memory' \in [Keys -> Blocks]
    BY <1>1, <1>2, <1>4
  <2> QED BY <1>1, <2>1, <2>2 DEF IInv, TypeOK
<1>8. \A k \in Keys : FileGet(k)' = FileGet(k)
  BY <1>1 DEF FileGet, BlockRead, BucketSeen, Valid
<1> QED BY <1>1, <1>5, <1>6, <1>7, <1>8 DEF IInv, Fresh, Stays

LEMMA StoreInFileStep ==
    ASSUME IInv, NEW w \in Workers, StoreInFile(w)
    PROVE  IInv' /\ Fresh /\ Stays
<1> DEFINE key == call[w].key
           v == call[w].found
           entry == [val |-> v, exp |-> now + Ttl, at |-> now]
<1>1. /\ call[w] \in Calls /\ call \in [Workers -> Calls] /\ result \in [Workers -> Maybe]
      /\ key \in Keys /\ v \in Maybe /\ v # NoVal
      /\ key = call[w].want => v \in call[w].fetched
      /\ now \in Nat /\ Ttl \in Nat
      /\ block \in [Keys -> Blocks] /\ pointer \in [Keys -> BOOLEAN]
      /\ UNCHANGED <<now, memory, fetches, restarts>>
      /\ Return(w, v)
  BY TtlBounds, TimesAssumption
  DEF StoreInFile, IInv, TypeOK, CallsInv, Calls
<1>2. /\ pointer' = [pointer EXCEPT ![key] = TRUE]
      /\ block' = [block EXCEPT ![key] = entry]
      /\ page' = IF pointer[key] THEN "blocks" ELSE key
  BY DEF StoreInFile, FileSet
<1>3. /\ entry \in Blocks /\ entry.val = v
      /\ entry.exp = now + Ttl /\ entry.at = now
  BY <1>1 DEF Blocks, Maybe
<1> HIDE DEF entry
<1>4. /\ CallsInv' /\ result' \in [Workers -> Maybe]
      /\ \A u \in Workers : result'[u] # result[u] =>
            u = w /\ key = call[w].want /\ result'[u] = v
  BY <1>1, ReturnStep
<1>5. CachesInv'
  <2> SUFFICES ASSUME NEW k \in Keys
               PROVE  /\ memory'[k] # NoBlock =>
                            memory'[k].exp = Ttl \/ memory'[k].exp = memory'[k].at + Ttl
                      /\ block'[k] # NoBlock =>
                            block'[k].exp = block'[k].at + Ttl /\ block'[k].at <= now'
    BY DEF CachesInv
  <2>1. CASE k = key
    BY <1>1, <1>2, <1>3, <2>1 DEF IInv, CachesInv
  <2>2. CASE k # key
    BY <1>1, <1>2, <2>2 DEF IInv, CachesInv
  <2> QED BY <2>1, <2>2
<1>6. TypeOK'
  <2>1. \A u \in Workers :
          /\ call'[u].at \in {"idle", "look1", "look2", "looked", "enter", "fetch",
                              "store1", "store2"}
          /\ call'[u].key \in Keys /\ call'[u].want \in Keys
          /\ call'[u].found \in Values \union {NoVal}
          /\ result'[u] \in Values \union {NoVal}
    BY <1>4 DEF CallsInv, Calls, Positions, Maybe
  <2>2. block' \in [Keys -> Blocks] /\ pointer' \in [Keys -> BOOLEAN]
    BY <1>1, <1>2, <1>3
  <2>3. \A k \in Keys : pointer'[k] <=> block'[k].val # NoVal
    BY <1>1, <1>2, <1>3 DEF IInv, TypeOK
  <2>4. page' \in Keys \union {"none", "blocks"}
    BY <1>1, <1>2
  <2> QED BY <1>1, <2>1, <2>2, <2>3, <2>4 DEF IInv, TypeOK
<1>7. Stays
  <2> SUFFICES ASSUME NEW k \in Keys, FileGet(k) # NoVal PROVE FileGet(k)' # NoVal
    BY DEF Stays
  <2>1. page # k /\ pointer[k] /\ Valid(block[k]) /\ block[k].val # NoVal
    BY DEF FileGet, BlockRead, BucketSeen, Valid, NoBlock
  <2>2. page' # k /\ pointer'[k]
    BY <1>1, <1>2, <2>1 DEF Keys
  <2>3. CASE k = key
    <3>1. block[k] # NoBlock /\ block[k].exp = block[k].at + Ttl /\ block[k].at <= now
      BY <2>1 DEF Valid, NoBlock, IInv, CachesInv
    <3>2. Ttl > 0
      BY <1>1, <2>1, <3>1 DEF Valid, Blocks
    <3>3. block'[k] = entry /\ now' = now
      BY <1>1, <1>2, <2>3
    <3>4. Valid(block[k])' /\ block'[k].val # NoVal
      BY <1>1, <1>3, <3>2, <3>3 DEF Valid
    <3> QED BY <2>2, <3>4 DEF FileGet, BlockRead, BucketSeen
  <2>4. CASE k # key
    <3>1. block'[k] = block[k] /\ now' = now
      BY <1>1, <1>2, <2>4
    <3> QED BY <2>1, <2>2, <3>1 DEF FileGet, BlockRead, BucketSeen, Valid
  <2> QED BY <2>3, <2>4
<1>8. Fresh
  BY <1>1, <1>4 DEF Fresh
<1> QED BY <1>4, <1>5, <1>6, <1>7, <1>8 DEF IInv

LEMMA TickStep ==
    ASSUME IInv, Tick
    PROVE  IInv' /\ Fresh /\ Stays
<1>1. /\ now \in Nat /\ now < MaxTime /\ now' = now + 1
      /\ now \in Start..MaxTime
      /\ UNCHANGED <<memory, pointer, block, page, call, result, fetches, restarts>>
  BY TimesAssumption DEF Tick, fileVars, IInv, TypeOK
<1>2. CallsInv' /\ Fresh
  BY <1>1 DEF IInv, CallsInv, Fresh
<1>3. CachesInv'
  <2>1. \A k \in Keys : block[k] \in Blocks
    BY DEF IInv, TypeOK
  <2> QED BY <1>1, <2>1 DEF IInv, CachesInv, Blocks
<1>4. TypeOK'
  <2>1. now' \in Start..MaxTime
    BY <1>1, TimesAssumption
  <2> QED BY <1>1, <2>1 DEF IInv, TypeOK
<1>5. Stays
  <2> SUFFICES ASSUME NEW k \in Keys, FileGet(k) # NoVal, now' < block[k].exp
               PROVE  FileGet(k)' # NoVal
    BY DEF Stays
  <2> QED BY <1>1 DEF FileGet, BlockRead, BucketSeen, Valid, NoBlock
<1> QED BY <1>2, <1>3, <1>4, <1>5 DEF IInv

LEMMA RestartStep ==
    ASSUME IInv, Restart
    PROVE  IInv' /\ Fresh /\ Stays
<1>1. /\ restarts < MaxRestart /\ restarts' = restarts + 1
      /\ restarts \in 0..MaxRestart /\ MaxRestart \in Nat
      /\ memory' = [k \in Keys |-> NoBlock]
      /\ page' = "none"
      /\ call' = [w \in Workers |-> Idle]
      /\ result \in [Workers -> Maybe]
      /\ UNCHANGED <<now, pointer, block, result, fetches>>
  BY BoundsAssumption DEF Restart, Open, fileVars, IInv, TypeOK, CallsInv
<1>2. Idle \in Calls /\ Idle.at = "idle" /\ NoBlock \in Blocks
  BY DEF NoBlock, Blocks, Idle, Calls, Positions, Maybe, Keys
<1>3. CallsInv'
  BY <1>1, <1>2 DEF CallsInv
<1>4. CachesInv'
  BY <1>1 DEF IInv, CachesInv
<1>5. TypeOK'
  <2>1. \A u \in Workers :
          /\ call'[u].at \in {"idle", "look1", "look2", "looked", "enter", "fetch",
                              "store1", "store2"}
          /\ call'[u].key \in Keys /\ call'[u].want \in Keys
          /\ call'[u].found \in Values \union {NoVal}
          /\ result'[u] \in Values \union {NoVal}
    BY <1>3 DEF CallsInv, Calls, Positions, Maybe
  <2>2. memory' \in [Keys -> Blocks] /\ restarts' \in 0..MaxRestart
    BY <1>1, <1>2
  <2> QED BY <1>1, <2>1, <2>2 DEF IInv, TypeOK
<1>6. Fresh
  BY <1>1 DEF Fresh
<1>7. Stays
  <2> SUFFICES ASSUME NEW k \in Keys, FileGet(k) # NoVal PROVE FileGet(k)' # NoVal
    BY DEF Stays
  <2> QED BY <1>1 DEF FileGet, BlockRead, BucketSeen, Valid, NoBlock, Keys
<1> QED BY <1>3, <1>4, <1>5, <1>6, <1>7 DEF IInv

LEMMA NextStep == IInv /\ [Next]_vars => IInv' /\ [Fresh]_vars /\ [Stays]_vars
<1> SUFFICES ASSUME IInv, [Next]_vars PROVE IInv' /\ [Fresh]_vars /\ [Stays]_vars
  OBVIOUS
<1>1. ASSUME NEW w \in Workers, AppInfo(w) PROVE IInv' /\ Fresh /\ Stays
  BY <1>1, CallSteps, LookInFileStep, AfterLookStep, FetchSteps, StoreInMemoryStep,
     StoreInFileStep DEF AppInfo
<1>2. CASE Tick
  BY <1>2, TickStep
<1>3. CASE Restart
  BY <1>3, RestartStep
<1>4. CASE UNCHANGED vars
  <2>1. UNCHANGED <<now, memory, pointer, block, page, call, result, fetches, restarts>>
    BY <1>4 DEF vars
  <2>2. TypeOK' /\ CachesInv' /\ CallsInv'
    BY <2>1 DEF IInv, TypeOK, CachesInv, CallsInv
  <2> QED BY <1>4, <2>2 DEF IInv
<1> QED BY <1>1, <1>2, <1>3, <1>4 DEF Next

------------------------------------------------------------------------------
\* An entry of the memory that has not ended is younger than its lifetime:
\* the clock is far beyond the lifetime that the first Set stores.
LEMMA FoundIsYoung == IInv => NotExpired
<1> SUFFICES ASSUME IInv, NEW k \in Keys
             PROVE  /\ MemoryGet(k) # NoVal => now <= memory[k].at + Lifetime
                    /\ FileGet(k) # NoVal => now <= block[k].at + Lifetime
  BY DEF NotExpired
<1>1. /\ memory[k] \in Blocks /\ block[k] \in Blocks
      /\ now \in Nat /\ Start <= now /\ Lifetime < Start
      /\ Ttl \in Nat /\ Ttl <= Lifetime /\ Lifetime \in Nat
  BY TimesAssumption, TtlBounds DEF IInv, TypeOK
<1>2. /\ memory[k] # NoBlock => memory[k].exp = Ttl \/ memory[k].exp = memory[k].at + Ttl
      /\ block[k] # NoBlock => block[k].exp = block[k].at + Ttl
  BY DEF IInv, CachesInv
<1>3. ASSUME MemoryGet(k) # NoVal PROVE now <= memory[k].at + Lifetime
  <2>1. memory[k] # NoBlock /\ ~IsExpired(memory[k])
    BY <1>3 DEF MemoryGet
  <2>2. memory[k].exp \in Int /\ memory[k].at \in Nat
    BY <1>1 DEF Blocks
  <2> QED BY <1>1, <1>2, <2>1, <2>2 DEF IsExpired
<1>4. ASSUME FileGet(k) # NoVal PROVE now <= block[k].at + Lifetime
  <2>1. Valid(block[k]) /\ block[k] # NoBlock
    BY <1>4 DEF FileGet, BlockRead, Valid, NoBlock
  <2>2. block[k].exp \in Int /\ block[k].at \in Nat
    BY <1>1 DEF Blocks
  <2> QED BY <1>1, <1>2, <2>1, <2>2 DEF Valid
<1> QED BY <1>3, <1>4

(* IInv holds in every reachable state of AppInfo and its two caches. *)
THEOREM Invariance == Spec => []IInv
  BY InitIInv, NextStep, PTL DEF Spec

(* The state of AppInfo and of its caches is always well typed, and a bucket
   of NativeFile points to a block exactly when a value has been stored. *)
THEOREM TypeCorrect == Spec => []TypeOK
<1>1. IInv => TypeOK
  BY DEF IInv
<1> QED BY Invariance, <1>1, PTL

(* Neither NativeMemory nor NativeFile finds a value that was stored longer
   than its lifetime ago, for any lifetime shorter than the clock's start and
   any margin. *)
THEOREM NothingExpiredIsFound == Spec => []NotExpired
  BY Invariance, FoundIsYoung, PTL

(* However many workers share the caches, a call of AppInfo returns the empty
   string or a value that this call has fetched. *)
THEOREM OnlyOwnFetches == Spec => FreshOrEmpty
<1>1. IInv /\ [Next]_vars => [Fresh]_vars
  BY NextStep
<1> QED BY Invariance, <1>1, PTL DEF Spec, FreshOrEmpty, Fresh

(* A value that NativeFile finds stays findable until it ends: reads and writes
   of the other key never leave fpr_ on an empty bucket of this one. *)
THEOREM FileKeepsFinding == Spec => FoundStaysFound
<1>1. IInv /\ [Next]_vars => [Stays]_vars
  BY NextStep
<1> QED BY Invariance, <1>1, PTL DEF Spec, FoundStaysFound, Stays
==============================================================================
