------------------------------ MODULE Inquiry --------------------------------
(***************************************************************************)
(* pps-services-tokopedia: the inquiry endpoint.  Concurrent requests pass *)
(* the IP list, the rate limit and the cut-off windows, are checked for a  *)
(* repeated ref_id, priced and answered.  Redis caches what Oracle knows:  *)
(* goroutines fill the caches while requests read them and Oracle changes. *)
(* The Redis client sends a command again when its reply is lost.          *)
(* All requests come from one client and ask for one product and one       *)
(* customer.                                                               *)
(***************************************************************************)
EXTENDS Naturals, FiniteSets

CONSTANTS
    Reqs,                    \* inquiries the partner sends
    refOf,                   \* the ref_id of an inquiry
    None,
    offered,                 \* versions of the product that are on sale
    Limit, Window,           \* RATE_LIMIT_INQUIRY and its window
    Day,                     \* ticks of the clock in a day
    cutStart, cutDuration,   \* the cut-off windows Oracle holds
    held,                    \* what of them Oracle has a usable value for
    MaxVersion,              \* bound: changes of the product in Oracle
    MaxNow,                  \* bound: the clock
    MaxFaults,               \* bound: errors of PostgreSQL, Redis, Oracle
    MaxCrashes,              \* bound: restarts of the service
    MaxPayFills              \* bound: payments that fill a cache

(* The windows and the keys they are kept under in Redis. *)
CutWindows == {"general", "tokopedia"}
CutOffs    == CutWindows \X {"start", "duration"}
Starts     == CutWindows \X {"start"}
KeysOf(w)  == {w} \X {"start", "duration"}

ASSUME NoneAssumption   == None \notin Nat
ASSUME WindowAssumption == /\ {Limit, Window, Day} \subseteq Nat \ {0}
                           /\ cutStart \in [CutWindows -> 0..(Day - 1)]
                           /\ cutDuration \in [CutWindows -> 1..(Day - 1)]
                           /\ held \subseteq CutOffs
ASSUME BoundsAssumption ==
    {MaxVersion, MaxNow, MaxFaults, MaxCrashes, MaxPayFills} \subseteq Nat

VARIABLES
    call,      \* per request: its goroutine's place, its response_code
    rows,      \* inquiry_requests: requests that inserted a row
    payable,   \* inquiry_responses: requests whose pps_inquiry_id has a row
    version,   \* Oracle: the product as PKG_TOKPED_PRODUCT shows it
    cached,    \* Redis: the version under product_with_status, 0 an error row
    saving,    \* versions that a goroutine is about to cache, per its starter
    plnCached, \* Redis: the customer's data are cached
    counter,   \* Redis: the client's rate_limit counter and when it expires
    cutKeys,   \* Redis: the keys of the cut-off windows that are set
    cutSaving, \* keys that goroutines are about to set
    found,     \* per request: the keys that were set when it began to read
    booting,   \* what the service has yet to load since it started
    now,       \* the clock
    seen,      \* per request: the version it was priced by, 0 if none
    earlier,   \* history, per request: those over when it arrived
    counted,   \* history, per request: when the rate limit counted it
    missed,    \* history: requests for which a failed query was ignored
    miscounted, \* history: the counter's expiry came late, failed or was
               \* never asked for, or the counter counts a request twice
    crossed,   \* history: Oracle changed during a fill, or Redis failed a read
    unset,     \* history: a failed command or the end of the process left a
               \* cut-off key unset that a goroutine was to set
    faults, crashes, payFills

redis       == <<cached, plnCached, counter, cutKeys>>
tables      == <<rows, payable>>
fills       == <<saving, cutSaving, found, booting>>
happened    == <<unset, crashes, payFills>>
history     == <<seen, earlier, counted, missed, miscounted, crossed>>
inquiryVars == <<call, tables, version, redis, fills, now, history, faults,
                 happened>>

(* The startup of the service and payments fill the caches as well. *)
Boot   == "boot"
Pay    == "pay"
Others == {Boot, Pay}

Pcs == {"idle", "incr", "expire", "cutoff", "window", "ref", "audit", "insert",
        "price", "oracle", "pln", "success", "bills", "done", "dead"}
(* "product" for any status of a product that is not on sale, "mapped" for *)
(* what an error of Oracle or Ultima is mapped to.                         *)
Codes == {"none", "00", "13", "14", "23", "42", "60", "61", "62", "product",
          "mapped"}

NoCounter == [count |-> 0, expires |-> None]

InquiryInit ==
    /\ call = [r \in Reqs |-> [pc |-> "idle", code |-> "none"]]
    /\ rows = {} /\ payable = {}
    /\ version = 1
    /\ cached = None /\ plnCached = FALSE /\ cutKeys = {}
    /\ counter = NoCounter
    /\ saving = [x \in Reqs \cup Others |-> None]
    /\ cutSaving = {} /\ found = [r \in Reqs |-> {}]
    /\ booting = {"products", "cutoff"}
    /\ now \in 0..(Day - 1)
    /\ seen = [r \in Reqs |-> 0]
    /\ earlier = [r \in Reqs |-> {}]
    /\ counted = [r \in Reqs |-> None]
    /\ missed = {} /\ miscounted = FALSE /\ crossed = FALSE /\ unset = FALSE
    /\ faults = 0 /\ crashes = 0 /\ payFills = 0

-----------------------------------------------------------------------------
(* Helpers *)

Go(r, pc, code) == call' = [call EXCEPT ![r] = [pc |-> pc, code |-> code]]
Over      == {r \in Reqs : call[r].pc \in {"done", "dead"}}
Serving   == {r \in Reqs : call[r].pc # "idle"} \ Over
Fault     == faults < MaxFaults /\ faults' = faults + 1
Missed(r) == Fault /\ missed' = missed \cup {r}
NoFault   == UNCHANGED <<faults, missed>>

(* Mutation: an inquiry at the very start of a window gets through. *)
MutWithinCutOffWindow(w, t) ==
    t > cutStart[w] /\ t <= cutStart[w] + cutDuration[w]

(* withinCutOffWindow: the window starts today, whatever the time is.  As  *)
(* an end after midnight is not before the start, the branch for a window  *)
(* that crosses midnight is never taken.                                   *)
WithinCutOffWindow(w, t) ==
    t >= cutStart[w] /\ t <= cutStart[w] + cutDuration[w]

(* isCutOffActive: a window needs both its keys. *)
InForce(keys, t) ==
    \E w \in CutWindows : KeysOf(w) \subseteq keys /\ WithinCutOffWindow(w, t)

(* Mutation: only a request that has not been answered yet is repeated. *)
MutRefUsed(r) == \E q \in rows \cap Serving : refOf[q] = refOf[r]

(* CheckRefIDExists: every row counts, those of refused inquiries too. *)
RefUsed(r) == \E q \in rows : refOf[q] = refOf[r]

-----------------------------------------------------------------------------
(* The middleware: IP list and rate limit *)

(* IPWhitelistMiddleware turns the client away (60), or cannot tell (62). *)
Arrive(r) ==
    /\ call[r].pc = "idle"
    /\ \/ Go(r, "incr", "none")
       \/ \E code \in {"60", "62"} : Go(r, "done", code)
    /\ earlier' = [earlier EXCEPT ![r] = Over]
    /\ UNCHANGED <<tables, version, redis, fills, now, seen, counted, missed,
                   miscounted, crossed, faults, happened>>

(* Mutation: the request that reaches the limit is refused. *)
MutAllowed(count) == count < Limit

Allowed(count) == count <= Limit

(* checkRateLimit: INCR creates the counter without an expiry.  An error   *)
(* of Redis lets the request through; INCR may have been carried out all   *)
(* the same, and carried out again when the client sends it again.  The    *)
(* expiry is asked for by the request that sees 1, if one does.            *)
Incr(r) ==
    /\ call[r].pc = "incr"
    /\ LET count  == counter.count + 1
           Applied == /\ counter' = [counter EXCEPT !.count = count]
                      /\ counted' = [counted EXCEPT ![r] = now]
       IN
       \/ /\ Applied
          /\ \/ count = 1 /\ Go(r, "expire", "none")
             \/ count > 1 /\ Allowed(count) /\ Go(r, "cutoff", "none")
             \/ count > 1 /\ ~Allowed(count) /\ Go(r, "done", "23")
          /\ UNCHANGED <<miscounted, faults>>
       \/ /\ Fault
          /\ Applied
          /\ \/ /\ Go(r, "cutoff", "none")
                /\ miscounted' = (miscounted \/ count = 1)
             \/ Go(r, "incr", "none") /\ miscounted' = TRUE
       \/ /\ Fault
          /\ \/ Go(r, "cutoff", "none")
             \/ Go(r, "incr", "none")
          /\ UNCHANGED <<counter, counted, miscounted>>
    /\ UNCHANGED <<tables, version, cached, plnCached, cutKeys, fills, now,
                   seen, earlier, missed, crossed, happened>>

(* checkRateLimit: the first request of a window sets the expiry, if the   *)
(* counter is there.  A failure is logged, and a counter without expiry    *)
(* then stays for good.                                                    *)
Expire(r) ==
    /\ call[r].pc = "expire"
    /\ LET expiring == IF counter.count = 0 THEN counter
                       ELSE [counter EXCEPT !.expires = now + Window]
           GoOn     == \/ Allowed(1) /\ Go(r, "cutoff", "none")
                       \/ ~Allowed(1) /\ Go(r, "done", "23")
       IN
       \/ counter' = expiring /\ GoOn /\ UNCHANGED <<miscounted, faults>>
       \/ /\ Fault
          /\ miscounted' = TRUE
          /\ counter' \in {counter, expiring}
          /\ GoOn \/ Go(r, "expire", "none")
    /\ UNCHANGED <<tables, version, cached, plnCached, cutKeys, fills, now,
                   seen, earlier, counted, missed, crossed, happened>>

-----------------------------------------------------------------------------
(* Inquiry: cut-off windows *)

(* getCutOffWindowFromRedis: the first of four GETs. *)
ReadCutOff(r) ==
    /\ call[r].pc = "cutoff"
    /\ Go(r, "window", "none")
    /\ found' = [found EXCEPT ![r] = cutKeys]
    /\ UNCHANGED <<tables, version, redis, saving, cutSaving, booting, now,
                   history, faults, happened>>

(* The procedure's own flag, checked next, and the mandatory parameters:   *)
(* refused without a trace.                                                *)
PassCutOff(r) == \/ Go(r, "ref", "none")
                 \/ \E code \in {"42", "61", "62"} : Go(r, "done", code)

Judge(r, keys) == \/ InForce(keys, now % Day) /\ Go(r, "done", "61")
                  \/ ~InForce(keys, now % Day) /\ PassCutOff(r)

(* getCutOffWindowFromOracle: without Oracle there is no window. *)
OracleCutOff(r) ==
    \/ Judge(r, held) /\ cutSaving' = cutSaving \cup held
    \/ faults' > faults /\ PassCutOff(r) /\ UNCHANGED cutSaving

(* validateCutOffRedisWithFallback: one start, of either window, is enough *)
(* for Redis to be trusted with both.  A GET sees a key set meanwhile, or  *)
(* does not; a failed one is a key that is not set.                        *)
CutOff(r) ==
    /\ call[r].pc = "window"
    /\ \E read \in SUBSET cutKeys :
         /\ \/ found[r] \subseteq read /\ UNCHANGED faults
            \/ Fault
         /\ \/ read \cap Starts # {} /\ Judge(r, read) /\ UNCHANGED cutSaving
            \/ read \cap Starts = {} /\ OracleCutOff(r)
    /\ found' = [found EXCEPT ![r] = {}]
    /\ UNCHANGED <<tables, version, redis, saving, booting, now, history,
                   happened>>

(* The keys are set one at a time, in no order, and never expire. *)
SaveCutOff ==
    /\ \E k \in cutSaving :
         \/ /\ cutKeys' = cutKeys \cup {k} /\ cutSaving' = cutSaving \ {k}
            /\ UNCHANGED <<unset, faults>>
         \/ /\ Fault
            /\ cutKeys' \in {cutKeys, cutKeys \cup {k}}
            /\ cutSaving' \in {cutSaving, cutSaving \ {k}}
            /\ unset' = (unset \/ k \notin cutKeys' \cup cutSaving')
    /\ UNCHANGED <<call, tables, version, cached, plnCached, counter, saving,
                   found, booting, now, history, crashes, payFills>>

-----------------------------------------------------------------------------
(* Inquiry: the ref_id *)

(* validateDuplicateRefIDBeforeInsert: a failed query is ignored. *)
CheckRef(r) ==
    /\ call[r].pc = "ref"
    /\ \/ RefUsed(r) /\ Go(r, "audit", "13") /\ NoFault
       \/ ~RefUsed(r) /\ Go(r, "insert", "none") /\ NoFault
       \/ Missed(r) /\ Go(r, "insert", "none")
    /\ UNCHANGED <<tables, version, redis, fills, now, seen, earlier, counted,
                   miscounted, crossed, happened>>

(* insertInquiryRequest, also for the audit trail of a refusal.  The       *)
(* procedure turns its own errors into a nil error and no row; a failed    *)
(* query ends the request, with or without the row in place.               *)
InsertRow(r) ==
    /\ call[r].pc \in {"audit", "insert"}
    /\ LET after == IF call[r].pc = "audit" THEN "done" ELSE "price" IN
       \/ rows' = rows \cup {r} /\ Go(r, after, call[r].code) /\ NoFault
       \/ Missed(r) /\ UNCHANGED rows /\ Go(r, after, call[r].code)
       \/ /\ Fault
          /\ rows' \in {rows, rows \cup {r}}
          /\ Go(r, "done", "62")
          /\ UNCHANGED missed
    /\ UNCHANGED <<payable, version, redis, fills, now, seen, earlier,
                   counted, miscounted, crossed, happened>>

-----------------------------------------------------------------------------
(* Inquiry: the price *)

(* validateProductPrice.  A cached row has no error code: what Oracle      *)
(* refused with one is a product without a price when it comes from Redis. *)
Priced(r, v) ==
    /\ seen' = [seen EXCEPT ![r] = v]
    /\ \/ v = 0 /\ Go(r, "done", "14")
       \/ v \in offered /\ Go(r, "pln", "none")
       \/ v \notin offered \cup {0} /\ Go(r, "done", "product")

(* getProductWithStatus: a failed read of Redis is a miss. *)
ReadCache(r) ==
    /\ call[r].pc = "price"
    /\ \/ /\ cached # None
          /\ Priced(r, cached)
          /\ UNCHANGED <<crossed, faults>>
       \/ /\ cached = None
          /\ Go(r, "oracle", "none")
          /\ UNCHANGED <<seen, crossed, faults>>
       \/ /\ Fault
          /\ crossed' = TRUE
          /\ Go(r, "oracle", "none")
          /\ UNCHANGED seen
    /\ UNCHANGED <<tables, version, redis, fills, now, earlier, counted,
                   missed, miscounted, happened>>

(* Mutation: the row that the service loaded when it started is cached. *)
MutToCache(row) == IF row = 0 THEN 0 ELSE 1

(* The row as Oracle returned it. *)
ToCache(row) == row

(* getProductWithStatus after a miss: whatever row Oracle returns is left  *)
(* to a goroutine to cache, an error row too.                              *)
QueryOracle(r) ==
    /\ call[r].pc = "oracle"
    /\ \/ /\ saving' = [saving EXCEPT ![r] = ToCache(version)]
          /\ Priced(r, version)
          /\ UNCHANGED faults
       \/ /\ Fault
          /\ saving' = [saving EXCEPT ![r] = ToCache(0)]
          /\ Go(r, "done", "mapped")
          /\ UNCHANGED seen
       \/ /\ Fault
          /\ Go(r, "done", "62")
          /\ UNCHANGED <<saving, seen>>
    /\ UNCHANGED <<tables, version, redis, cutSaving, found, booting, now,
                   earlier, counted, missed, miscounted, crossed, happened>>

(* saveProductWithStatusToRedisAsync and its like elsewhere. *)
Save ==
    /\ \E x \in DOMAIN saving :
         LET saved == [saving EXCEPT ![x] = None] IN
         /\ saving[x] # None
         /\ \/ cached' = saving[x] /\ saving' = saved /\ UNCHANGED faults
            \/ /\ Fault
               /\ cached' \in {cached, saving[x]} /\ saving' \in {saving, saved}
    /\ UNCHANGED <<call, tables, version, plnCached, counter, cutKeys,
                   cutSaving, found, booting, now, history, happened>>

-----------------------------------------------------------------------------
(* Inquiry: the customer, the answer *)

(* validatePLNInquiry: from Redis or from Ultima, which may refuse, mapped *)
(* to a code, or fail.  Complete data are cached if Redis takes them.      *)
CheckPln(r) ==
    /\ call[r].pc = "pln"
    /\ \/ /\ plnCached
          /\ Go(r, "success", "none")
          /\ UNCHANGED <<plnCached, faults>>
       \/ /\ \/ ~plnCached /\ UNCHANGED faults
             \/ Fault
          /\ \/ Go(r, "success", "none") /\ plnCached' \in {plnCached, TRUE}
             \/ /\ \E code \in {"mapped", "62"} : Go(r, "done", code)
                /\ UNCHANGED plnCached
    /\ UNCHANGED <<tables, version, cached, counter, cutKeys, fills, now,
                   history, happened>>

(* buildSuccessResponse: the row that a payment will look for.  The        *)
(* procedure's own error is ignored here too.                              *)
StoreSuccess(r) ==
    /\ call[r].pc = "success"
    /\ \/ payable' = payable \cup {r} /\ Go(r, "bills", "none") /\ NoFault
       \/ Missed(r) /\ UNCHANGED payable /\ Go(r, "bills", "none")
       \/ /\ Fault
          /\ payable' \in {payable, payable \cup {r}}
          /\ Go(r, "done", "62")
          /\ UNCHANGED missed
    /\ UNCHANGED <<rows, version, redis, fills, now, seen, earlier, counted,
                   miscounted, crossed, happened>>

(* buildSuccessResponse: the bill details, one by one. *)
InsertBills(r) ==
    /\ call[r].pc = "bills"
    /\ \/ Go(r, "done", "00") /\ UNCHANGED faults
       \/ Go(r, "done", "62") /\ Fault
    /\ UNCHANGED <<tables, version, redis, fills, now, history, happened>>

-----------------------------------------------------------------------------
(* Payments, startup, Oracle, time *)

(* validateAmountMatchesPrice: a payment that missed the product in Redis  *)
(* a while ago, or could not read it, has now read it from Oracle and has  *)
(* it cached, unless it is an error row (it has no price).                 *)
(* validateCutOffRedis: the same with both starts and the cut-off windows. *)
PaymentFills ==
    /\ payFills < MaxPayFills /\ payFills' = payFills + 1
    /\ \/ /\ saving[Pay] = None
          /\ saving' = [saving EXCEPT ![Pay] = version]
          /\ UNCHANGED cutSaving
       \/ cutSaving' = cutSaving \cup held /\ UNCHANGED saving
    /\ UNCHANGED <<call, tables, version, redis, found, booting, now, history,
                   faults, unset, crashes>>

(* main: products with their status. *)
LoadProducts ==
    /\ "products" \in booting
    /\ booting' = booting \ {"products"}
    /\ \/ saving' = [saving EXCEPT ![Boot] = version] /\ UNCHANGED faults
       \/ Fault /\ UNCHANGED saving
    /\ UNCHANGED <<call, tables, version, redis, cutSaving, found, now,
                   history, happened>>

(* main: the cut-off configuration. *)
LoadCutOff ==
    /\ "cutoff" \in booting
    /\ booting' = booting \ {"cutoff"}
    /\ \/ cutSaving' = cutSaving \cup held /\ UNCHANGED faults
       \/ Fault /\ UNCHANGED cutSaving
    /\ UNCHANGED <<call, tables, version, redis, saving, found, now, history,
                   happened>>

(* A request or a goroutine is between reading Oracle and filling Redis,   *)
(* or between missing a row in Redis and reading Oracle.                   *)
Filling == \/ \E x \in DOMAIN saving : saving[x] # None
           \/ \E r \in Reqs : call[r].pc = "oracle"

(* The product gets a new price or status in Oracle. *)
ProductChanges ==
    /\ version < MaxVersion
    /\ version' = version + 1
    /\ crossed' = (crossed \/ Filling)
    /\ UNCHANGED <<call, tables, redis, fills, now, seen, earlier, counted,
                   missed, miscounted, faults, happened>>

(* The 24 hours of a product or of a customer in Redis are over. *)
CacheExpires ==
    /\ \/ cached # None /\ cached' = None /\ UNCHANGED plnCached
       \/ plnCached /\ plnCached' = FALSE /\ UNCHANGED cached
    /\ UNCHANGED <<call, tables, version, counter, cutKeys, fills, now,
                   history, faults, happened>>

(* Redis drops the counter when its time has come. *)
Tick ==
    /\ now < MaxNow
    /\ now' = now + 1
    /\ counter' = IF counter.expires = now' THEN NoCounter ELSE counter
    /\ miscounted' = (miscounted \/ \E r \in Reqs : call[r].pc = "expire")
    /\ UNCHANGED <<call, tables, version, cached, plnCached, cutKeys, fills,
                   seen, earlier, counted, missed, crossed, faults, happened>>

(* The process dies with its requests and goroutines and starts again. *)
InquiriesDie ==
    /\ call' = [r \in Reqs |-> IF r \in Serving
                               THEN [pc |-> "dead", code |-> "none"]
                               ELSE call[r]]
    /\ saving' = [x \in DOMAIN saving |-> None]
    /\ unset' = (unset \/ ~(cutSaving \subseteq cutKeys))
    /\ cutSaving' = {} /\ found' = [r \in Reqs |-> {}]
    /\ booting' = {"products", "cutoff"}
    /\ miscounted' = (miscounted \/ \E r \in Reqs : call[r].pc = "expire")
    /\ UNCHANGED <<tables, version, redis, now, seen, earlier, counted,
                   missed, crossed, faults, payFills>>

Serve(r) == \/ Arrive(r)
            \/ Incr(r)
            \/ Expire(r)
            \/ ReadCutOff(r)
            \/ CutOff(r)
            \/ CheckRef(r)
            \/ InsertRow(r)
            \/ ReadCache(r)
            \/ QueryOracle(r)
            \/ CheckPln(r)
            \/ StoreSuccess(r)
            \/ InsertBills(r)

InquiryNext == \/ \E r \in Reqs : Serve(r)
               \/ SaveCutOff
               \/ Save
               \/ PaymentFills
               \/ LoadProducts
               \/ LoadCutOff
               \/ ProductChanges
               \/ CacheExpires
               \/ Tick

-----------------------------------------------------------------------------
(* Properties *)

Answer(r)  == IF call[r].pc = "done" THEN call[r].code ELSE "none"
Met(r, s)  == r \notin earlier[s] /\ s \notin earlier[r]

(* An inquiry answered 00 can be paid and is recognised when the partner   *)
(* repeats it: both rows are in place, and no second inquiry with its      *)
(* ref_id is answered 00, unless the two were served at the same time or   *)
(* an error of the database was ignored.                                   *)
AnswersAreRecorded ==
    \A r \in Reqs : Answer(r) = "00" =>
        /\ r \in rows \cap payable \/ r \in missed
        /\ \A s \in Reqs \ {r} :
             Answer(s) = "00" /\ refOf[r] = refOf[s]
                 => Met(r, s) \/ {r, s} \cap missed # {}

(* The partner is never shown an older state of the product than the one   *)
(* it was shown before: a price or a closed product only comes back if     *)
(* Oracle changed while the cache was being filled, by inquiries, payments *)
(* or the startup, or if Redis failed a read.                              *)
PriceNeverReturns ==
    \A s \in Reqs : \A r \in earlier[s] :
        seen[r] > seen[s] /\ seen[s] # 0 => crossed

(* An inquiry is refused with 23 only if the client did send more than     *)
(* Limit requests within one window, unless the counter had gone astray:   *)
(* its expiry failed, came late or was lost with the process between INCR  *)
(* and EXPIRE; the reply to the INCR that created it was lost, so that     *)
(* nobody asked for its expiry; or an INCR was carried out twice.          *)
LimitedIsOverLimit ==
    [][\A r \in Reqs :
         Answer(r) = "none" /\ Answer(r)' = "23" =>
           \/ miscounted
           \/ Cardinality({s \in Reqs : /\ counted'[s] # None
                                        /\ counted'[s] + Window > now})
                > Limit]_inquiryVars

(* During a cut-off, of either window and at either end of it, no inquiry  *)
(* gets through, whichever goroutine is filling the cache, except where    *)
(* the code lets it: after midnight; when a read of Redis or Oracle fails; *)
(* and when Redis had a start, be it the other window's, but not both keys *)
(* of this window as the inquiry began to read.  That is so only while     *)
(* goroutines set the keys, unless a failed command or a crash once kept   *)
(* one from being set.                                                     *)
CutOffHolds ==
    [][\A r \in Reqs, w \in CutWindows :
         /\ call[r].pc = "window" /\ call'[r].pc = "ref"
         /\ KeysOf(w) \subseteq held
         /\ (now + Day - cutStart[w]) % Day <= cutDuration[w]
         => \/ now % Day < cutStart[w]
            \/ faults' > faults
            \/ /\ cutKeys \cap Starts # {} /\ ~(KeysOf(w) \subseteq found[r])
               /\ \/ ~(cutSaving \subseteq cutKeys)
                  \/ found[r] # cutKeys
                  \/ unset]_inquiryVars
=============================================================================
