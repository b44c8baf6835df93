----------------------------- MODULE TokenCache -----------------------------
(***************************************************************************)
(* The access token and the tickets of one WeChat Work application:        *)
(* AppInfo with its two caches, NativeMemory in front of NativeFile, used  *)
(* by several workers of the HTTP server.  Each cache call is one step,    *)
(* under the lock of that cache; a call of AppInfo is several.             *)
(*                                                                         *)
(* NativeFile reads through fpr_ and writes through fpw_.  fpr_ keeps the  *)
(* page it has read and does not read it again while it seeks inside that  *)
(* page.  The keys of an application have their bucket pointers on pages   *)
(* of their own, and their blocks share the page behind the buckets.       *)
(***************************************************************************)
EXTENDS Integers, FiniteSets

CONSTANTS
    Workers,
    Lifetime,   \* expires_in of the API
    Margin,     \* what AppInfo takes off it (200 s)
    Start,      \* the time at which the service starts
    MaxTime, MaxFetch, MaxRestart  \* bounds on the clock, the API calls and the restarts

Keys == {"token", "ticket"}

ASSUME TimesAssumption ==
    /\ Lifetime \in Nat /\ Margin \in Nat /\ MaxTime \in Nat /\ Start \in Nat
    /\ Lifetime < Start /\ Start <= MaxTime
ASSUME BoundsAssumption == MaxFetch \in Nat /\ MaxRestart \in Nat

NoVal == 0                   \* the empty string
Values == 1..MaxFetch        \* what the API returns, numbered
NoBlock == [val |-> NoVal, exp |-> -1, at |-> 0]
Blocks == [val : Values \union {NoVal}, exp : Int, at : Nat]

VARIABLES
    now,
    memory,    \* values_ of NativeMemory; an entry also holds the time it was stored
    pointer,   \* whether the bucket of a key points to a block of the file
    block,     \* the block of a key
    page,      \* the page fpr_ holds: the blocks, or the bucket of a key without a block
    call,      \* what a worker is doing
    result,    \* what its last call returned
    fetches, restarts
vars == <<now, memory, pointer, block, page, call, result, fetches, restarts>>
fileVars == <<pointer, block>>

Idle == [at |-> "idle", want |-> "token", key |-> "token", force |-> FALSE,
         found |-> NoVal, token |-> NoVal, fetched |-> {}]

Init ==
    /\ now = Start
    /\ memory = [k \in Keys |-> NoBlock]
    /\ pointer = [k \in Keys |-> FALSE]
    /\ block = [k \in Keys |-> NoBlock]
    /\ page = "none"
    /\ call = [w \in Workers |-> Idle]
    /\ result = [w \in Workers |-> NoVal]
    /\ fetches = 0 /\ restarts = 0

-----------------------------------------------------------------------------
(* NativeMemory.                                                           *)

\* The first Set of a key stores the lifetime itself, later ones the time at
\* which it ends.
MemorySet(k, v, ttl) ==
    memory' = [memory EXCEPT ![k] =
        [val |-> v, exp |-> IF @ = NoBlock THEN ttl ELSE now + ttl, at |-> now]]

\* A value that is kept for good.
NeverExpires(b) == FALSE
IsExpired(b) == b.exp >= 0 /\ now > b.exp

MemoryGet(k) == IF memory[k] # NoBlock /\ ~IsExpired(memory[k]) THEN memory[k].val ELSE NoVal

-----------------------------------------------------------------------------
(* NativeFile.                                                             *)

\* What fpr_ sees of a key's bucket.  It goes on to the block whenever the bucket
\* has one, so a bucket page that it still holds was empty when it was read.
BucketSeen(k) == page # k /\ pointer[k]

\* Read and Get: the bucket, and the block if there is one.
BlockRead(k) == IF BucketSeen(k) THEN block[k] ELSE NoBlock
Valid(b) == b.exp >= 0 /\ now < b.exp
FileGet(k) == IF Valid(BlockRead(k)) THEN BlockRead(k).val ELSE NoVal

\* The page fpr_ holds after Read: the blocks if one was read, else the bucket.
PageAfterRead(k) == IF BucketSeen(k) THEN "blocks" ELSE k

\* Write looks at the end of the file first, so it reads the bucket anew.  A
\* new block is appended, the block of a known key is written in place: the
\* values of a key are taken to have one length.
FileSet(k, v, ttl) ==
    /\ pointer' = [pointer EXCEPT ![k] = TRUE]
    /\ block' = [block EXCEPT ![k] = [val |-> v, exp |-> now + ttl, at |-> now]]
    /\ page' = IF pointer[k] THEN "blocks" ELSE k

-----------------------------------------------------------------------------
(* AppInfo.                                                                *)

\* GetAccessToken or a ticket function is called.  The routes leave force at its
\* default, and only a forced call can put the first value into the caches.
Call(w) ==
    /\ call[w].at = "idle" /\ fetches < MaxFetch
    /\ \E want \in Keys, force \in BOOLEAN :
          call' = [call EXCEPT ![w] =
              [Idle EXCEPT !.at = IF force THEN "enter" ELSE "look1",
                           !.want = want, !.key = want, !.force = force]]
    /\ UNCHANGED <<now, memory, fileVars, page, result, fetches, restarts>>

\* The function for the current key returns v: to its caller, or into the url
\* of the ticket.
Return(w, v) ==
    IF call[w].key = call[w].want
    THEN /\ result' = [result EXCEPT ![w] = v]
         /\ call' = [call EXCEPT ![w] = [Idle EXCEPT !.fetched = call[w].fetched]]
    ELSE /\ call' = [call EXCEPT ![w].key = call[w].want, ![w].token = v, ![w].at = "fetch"]
         /\ UNCHANGED result

\* GetParamFromCache asks the memory and, if that has nothing, the file.
LookInMemory(w) ==
    /\ call[w].at = "look1"
    /\ LET v == MemoryGet(call[w].key) IN
       call' = [call EXCEPT ![w].at = IF v = NoVal THEN "look2" ELSE "looked", ![w].found = v]
    /\ UNCHANGED <<now, memory, fileVars, page, result, fetches, restarts>>

LookInFile(w) ==
    /\ call[w].at = "look2"
    /\ call' = [call EXCEPT ![w].at = "looked", ![w].found = FileGet(call[w].key)]
    /\ page' = PageAfterRead(call[w].key)
    /\ UNCHANGED <<now, memory, fileVars, result, fetches, restarts>>

\* The usual test: what is found is returned, and what is missing is fetched.
ReturnsIfFound(v) == v # NoVal
\* The test of the code: an empty string is returned at once.
ReturnsAtOnce(v) == v = NoVal

AfterLook(w) ==
    /\ call[w].at = "looked"
    /\ IF ReturnsAtOnce(call[w].found)
       THEN Return(w, call[w].found)
       ELSE call' = [call EXCEPT ![w].at = "enter"] /\ UNCHANGED result
    /\ UNCHANGED <<now, memory, fileVars, page, fetches, restarts>>

\* The url is put together; for a ticket GetAccessToken is called on the way.
BuildUrl(w) ==
    /\ call[w].at = "enter"
    /\ call' = [call EXCEPT
          ![w].key = "token",
          ![w].at = IF call[w].key = "token" THEN "fetch"
                    ELSE IF call[w].force THEN "enter" ELSE "look1"]
    /\ UNCHANGED <<now, memory, fileVars, page, result, fetches, restarts>>

\* WxApi::Get returns a new value...
FetchSucceeds(w) ==
    /\ call[w].at = "fetch" /\ fetches < MaxFetch
    /\ call[w].key = "ticket" => call[w].token # NoVal
    /\ fetches' = fetches + 1
    /\ call' = [call EXCEPT ![w].at = "store1", ![w].found = fetches + 1,
                            ![w].fetched = IF call[w].key = call[w].want THEN @ \union {fetches + 1} ELSE @]
    /\ UNCHANGED <<now, memory, fileVars, page, result, restarts>>

\* ...or nothing.
FetchFails(w) ==
    /\ call[w].at = "fetch"
    /\ Return(w, NoVal)
    /\ UNCHANGED <<now, memory, fileVars, page, fetches, restarts>>

decrement_expires_in(origin, value) == IF origin > value THEN origin - value ELSE origin
Ttl == decrement_expires_in(Lifetime, Margin)

\* SetParamToCache.
StoreInMemory(w) ==
    /\ call[w].at = "store1"
    /\ MemorySet(call[w].key, call[w].found, Ttl)
    /\ call' = [call EXCEPT ![w].at = "store2"]
    /\ UNCHANGED <<now, fileVars, page, result, fetches, restarts>>

StoreInFile(w) ==
    /\ call[w].at = "store2"
    /\ FileSet(call[w].key, call[w].found, Ttl)
    /\ Return(w, call[w].found)
    /\ UNCHANGED <<now, memory, fetches, restarts>>

-----------------------------------------------------------------------------
Tick ==
    /\ now < MaxTime
    /\ now' = now + 1
    /\ UNCHANGED <<memory, fileVars, page, call, result, fetches, restarts>>

\* A file that is created anew whenever it is opened.
OpenCreates == /\ pointer' = [k \in Keys |-> FALSE]
               /\ block' = [k \in Keys |-> NoBlock]
\* A file that exists is kept.
Open == UNCHANGED fileVars

\* The service ends between two cache calls and is started again.
Restart ==
    /\ restarts < MaxRestart
    /\ restarts' = restarts + 1
    /\ memory' = [k \in Keys |-> NoBlock]
    /\ Open
    /\ page' = "none"
    /\ call' = [w \in Workers |-> Idle]
    /\ UNCHANGED <<now, result, fetches>>

AppInfo(w) ==
    \/ Call(w) \/ LookInMemory(w) \/ LookInFile(w) \/ AfterLook(w) \/ BuildUrl(w)
    \/ FetchSucceeds(w) \/ FetchFails(w) \/ StoreInMemory(w) \/ StoreInFile(w)

Next == (\E w \in Workers : AppInfo(w)) \/ Tick \/ Restart

Spec == Init /\ [][Next]_vars

-----------------------------------------------------------------------------
(* Properties.                                                             *)

\* Types; a bucket points to a block exactly when a value has been stored.
TypeOK ==
    /\ now \in Start..MaxTime
    /\ memory \in [Keys -> Blocks] /\ block \in [Keys -> Blocks]
    /\ pointer \in [Keys -> BOOLEAN]
    /\ \A k \in Keys : pointer[k] <=> block[k].val # NoVal
    /\ page \in Keys \union {"none", "blocks"}
    /\ \A w \in Workers :
          /\ call[w].at \in {"idle", "look1", "look2", "looked", "enter", "fetch", "store1", "store2"}
          /\ call[w].key \in Keys /\ call[w].want \in Keys
          /\ call[w].found \in Values \union {NoVal}
          /\ result[w] \in Values \union {NoVal}
    /\ fetches \in 0..MaxFetch /\ restarts \in 0..MaxRestart

\* Nobody is served from a cache: a call returns the empty string or a value
\* it has fetched itself, whatever other workers store meanwhile.
FreshOrEmpty ==
    [][\A w \in Workers : result'[w] # result[w] => result'[w] \in {NoVal} \union call[w].fetched]_vars

\* What a look-up finds was stored less than its lifetime ago, in spite of the
\* two ways in which NativeMemory notes the end of it.
NotExpired ==
    \A k \in Keys :
        /\ MemoryGet(k) # NoVal => now <= memory[k].at + Lifetime
        /\ FileGet(k) # NoVal => now <= block[k].at + Lifetime

\* A key that the file has found once is found until its value expires: by
\* look-ups after other keys were read or written, after new values were
\* stored, and after a restart.
FoundStaysFound ==
    [][\A k \in Keys : FileGet(k) # NoVal /\ now' < block[k].exp => FileGet(k)' # NoVal]_vars
=============================================================================
