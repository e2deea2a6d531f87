---------------------------- MODULE SystemHealth ----------------------------
(***************************************************************************)
(* The system page and the dashboard: what the last test of a git platform *)
(* said (server/api/git_health.rs, test_git_platform of                    *)
(* server/api/config/helpers.rs), whether the database can be written      *)
(* (server/api/storage_health.rs), the overall verdict (system.rs,         *)
(* dashboard.rs) and the figures over the reviews (dashboard.rs).          *)
(*                                                                         *)
(* An optional value is a set of at most one element.                      *)
(***************************************************************************)
EXTENDS Integers, Sequences, SequencesExt, FiniteSets, FiniteSetsExt

CONSTANTS
  FirstPlatforms,     \* git_platforms at start: [id, type, base, internal, token]
  PlatformLists,      \* lists a save may publish
  PlatformTest,       \* bodies of POST .../test: [id, base, internal, token], "" = not stated
  BadTarget,          \* addresses validate_callback_url refuses
  StorageTarget,      \* "sqlite", "memory", "postgres", "disabled"
  StorageTtl, MaxPlatformSteps, MaxStorageTick,
  ReviewRows,         \* sequences of reviews [created, state, duration]
  Today, WeekDay,     \* the present day and the days since Monday
  DayLength, TrendDays, RecentLimit

VARIABLES
  platforms,       \* AppState::git_platforms
  gitHealth,       \* GitHealthStore: base -> [ok, at, fp]
  platformProbe,   \* tests in flight
  target,          \* what target_for answers
  storage,         \* StorageHealthStore::cached, an option of [ok, at]
  writable,        \* whether the database file can be written now
  storageTick,
  systemHistory    \* steps, and the answers given to storage reports

systemVars == <<platforms, gitHealth, platformProbe, target, storage, writable, storageTick, systemHistory>>

SystemInit ==
  /\ platforms = FirstPlatforms /\ gitHealth = <<>> /\ platformProbe = {}
  /\ target \in StorageTarget /\ storage = {} /\ writable \in BOOLEAN /\ storageTick = 0
  /\ systemHistory = [steps |-> 0, shown |-> {}]

PlatformStep == /\ systemHistory.steps < MaxPlatformSteps
                /\ systemHistory' = [systemHistory EXCEPT !.steps = @ + 1]

-----------------------------------------------------------------------------
(* Git platforms.                                                          *)

First(list, i) == IF i = {} THEN {} ELSE {list[Min(i)]}
Overlay(value, entries, default) == IF value # "" THEN value ELSE IF entries = {} THEN default ELSE (CHOOSE e \in entries : TRUE)

\* test_git_platform: the entry of the id, else of the address; a blank or masked token
\* and a blank internal address come from it; a refused address sends nothing.
TestGitPlatform(body) ==
  /\ body.base # "" /\ PlatformStep
  /\ LET byId == {i \in DOMAIN platforms : body.id # "" /\ platforms[i].id = body.id}
         stored == First(platforms, IF byId # {} THEN byId ELSE {i \in DOMAIN platforms : platforms[i].base = body.base})
         at == Overlay(body.internal, {e.internal : e \in stored} \ {""}, body.base)
         token == Overlay(body.token, {e.token : e \in stored}, "")
     IN  /\ at \notin BadTarget
         /\ platformProbe' = platformProbe \cup {[base |-> body.base, at |-> at, token |-> token, filed |-> token]}
  /\ UNCHANGED <<platforms, gitHealth, target, storage, writable, storageTick>>

\* The answer: record files it under the address with the fingerprint of address and token.
RecordPlatform(p) ==
  /\ p \in platformProbe
  /\ \E ok \in BOOLEAN :
       gitHealth' = [b \in DOMAIN gitHealth \cup {p.base} |->
          IF b = p.base THEN [ok |-> ok, at |-> systemHistory.steps, fp |-> <<p.base, p.filed>>, of |-> <<p.base, p.token>>]
          ELSE gitHealth[b]]
  /\ platformProbe' = platformProbe \ {p}
  /\ UNCHANGED <<platforms, target, storage, writable, storageTick, systemHistory>>

\* A save publishes a list; retain_live drops the addresses it no longer has.
SavePlatforms(list) ==
  /\ PlatformStep
  /\ platforms' = list
  /\ gitHealth' = [b \in {c \in DOMAIN gitHealth : \E p \in ToSet(list) : p.base = c} |-> gitHealth[b]]
  /\ UNCHANGED <<platformProbe, target, storage, writable, storageTick>>

\* lookup: an outcome of another token is no outcome.
Lookup(p) ==
  IF p.base \in DOMAIN gitHealth /\ gitHealth[p.base].fp = <<p.base, p.token>> THEN {gitHealth[p.base]} ELSE {}

\* integration_row: a failure of any entry of the type wins over the successes.
IntegrationRow(type, env) ==
  LET mine == {p \in ToSet(platforms) : p.type = type}
      outcomes == UNION {Lookup(p) : p \in mine}
      failed == {o \in outcomes : ~o.ok}
  IN  CASE ~env /\ mine = {} -> [status |-> "offline", by |-> {}]
        [] outcomes = {} -> [status |-> "unknown", by |-> {}]
        [] failed # {} -> [status |-> "error", by |-> {o.of : o \in {x \in failed : \A y \in failed : y.at <= x.at}}]
        [] OTHER -> [status |-> "success", by |-> {o.of : o \in {x \in outcomes : \A y \in outcomes : y.at <= x.at}}]

-----------------------------------------------------------------------------
(* Storage.                                                                *)

\* probe_target: only a database file is written to; every other target is healthy.
ProbeTarget == [ok |-> target # "sqlite" \/ writable, at |-> storageTick]

\* Fault: a verdict is kept for good.
CachedForGood == storage

\* cached.
Cached == {v \in storage : storageTick - v.at < StorageTtl}

\* report: a fresh verdict, or a probe that becomes the verdict.
StorageReport ==
  /\ systemHistory.shown = {} /\ systemHistory.steps < MaxPlatformSteps
  /\ storage' = IF Cached # {} THEN storage ELSE {ProbeTarget}
  /\ systemHistory' = [steps |-> systemHistory.steps + 1, shown |-> IF Cached # {} THEN Cached ELSE {ProbeTarget}]
  /\ UNCHANGED <<platforms, gitHealth, platformProbe, target, writable, storageTick>>

StorageShown ==
  /\ systemHistory.shown # {} /\ systemHistory' = [systemHistory EXCEPT !.shown = {}]
  /\ UNCHANGED <<platforms, gitHealth, platformProbe, target, storage, writable, storageTick>>

\* The file changes hands, and time passes.
FlipWritable ==
  /\ storageTick < MaxStorageTick /\ storageTick' = storageTick + 1
  /\ writable' \in BOOLEAN
  /\ UNCHANGED <<platforms, gitHealth, platformProbe, target, storage, systemHistory>>

SystemNext ==
  \/ \E body \in PlatformTest : TestGitPlatform(body)
  \/ \E p \in platformProbe : RecordPlatform(p)
  \/ \E list \in PlatformLists : SavePlatforms(list)
  \/ StorageReport \/ StorageShown \/ FlipWritable

\* overall_with_storage over the accounts that are not disabled: the storage above all.
Overall(statuses, stored) ==
  LET enabled == SelectSeq(statuses, LAMBDA s : s # "disabled") IN
  CASE ~stored.ok -> "error"
    [] enabled = <<>> -> "offline"
    [] \A i \in DOMAIN enabled : enabled[i] = "healthy" -> "success"
    [] \E i \in DOMAIN enabled : enabled[i] = "healthy" -> "warning"
    [] OTHER -> "error"

\* compute_health: the two git services, the accounts and the verdict on them.
ComputeHealth(env, statuses, stored) ==
  [integrations |-> <<IntegrationRow("gitlab", env), IntegrationRow("github", env)>>,
   llmProviders |-> statuses, storage |-> stored, overall |-> Overall(statuses, stored)]

\* system_health: the same, and whether any account that is not disabled has an address.
SystemPage(env, statuses, bases, stored) ==
  [health |-> ComputeHealth(env, statuses, stored), storageBackend |-> target,
   llmConfigured |-> \E i \in DOMAIN statuses : statuses[i] # "disabled" /\ bases[i] # ""]

-----------------------------------------------------------------------------
(* The dashboard.  Times are days times DayLength; created may be any.     *)

Midnight(day) == day * DayLength                      \* local_midnight
WeekStart == Midnight(Today - WeekDay)                \* iso_week_start
DayStart == Midnight(Today)                           \* day_start

\* ReviewSource::window: both ends belong to it.
InWindow(rows, state, from, to) ==
  SelectSeq(rows, LAMBDA x : /\ state = {} \/ x.state \in state
                             /\ x.created >= from /\ (to = {} \/ \A t \in to : x.created <= t))

\* Fault: the earlier window ends where the later begins.
SharedEnd(start) == {start}
\* One microsecond before.
EndBefore(start) == {start - 1}

SuccessRate(done, bad) == IF done + bad = 0 THEN {} ELSE {(2000 * done + done + bad) \div (2 * (done + bad))}
PctChange(now, before) == IF before = 0 THEN {} ELSE {((now - before) * 1000) \div before}
RateDelta(a, b) == {x - y : x \in a, y \in b}
AvgDuration(rows) ==
  LET timed == SelectSeq(rows, LAMBDA x : x.duration # {}) IN
  IF timed = <<>> THEN {}
  ELSE {FoldLeft(LAMBDA acc, x : acc + (CHOOSE d \in x.duration : TRUE), 0, timed) \div Len(timed)}

\* collect_dashboard and compute_kpis.
Kpis(rows) ==
  LET lastWeek == WeekStart - 7 * DayLength
      count(state, from, to) == Len(InWindow(rows, state, from, to))
      done == {"completed"}
      bad == {"failed"}
      avg == AvgDuration(InWindow(rows, done, WeekStart, {}))
      before == AvgDuration(InWindow(rows, done, lastWeek, EndBefore(WeekStart)))
      thisWeek == count({}, WeekStart, {})
      yesterday == DayStart - DayLength
  IN  [reviewsThisWeek |-> thisWeek, lastWeek |-> count({}, lastWeek, EndBefore(WeekStart)),
       reviewsTrend |-> PctChange(thisWeek, count({}, lastWeek, EndBefore(WeekStart))),
       successRate |-> SuccessRate(count(done, WeekStart, {}), count(bad, WeekStart, {})),
       successTrend |-> RateDelta(SuccessRate(count(done, DayStart, {}), count(bad, DayStart, {})),
                                  SuccessRate(count(done, yesterday, EndBefore(DayStart)), count(bad, yesterday, EndBefore(DayStart)))),
       avgDurationMs |-> avg,
       durationTrend |-> IF avg = {} \/ before = {} THEN {}
                         ELSE PctChange(CHOOSE x \in avg : TRUE, CHOOSE x \in before : TRUE)]

\* compute_trend_daily, over the rows of its window.
TrendDaily(rows) ==
  LET window == InWindow(rows, {}, Midnight(Today - (TrendDays - 1)), {}) IN
  [k \in 1 .. TrendDays |->
     LET day == Today - (TrendDays - k) IN
     Len(SelectSeq(window, LAMBDA x : x.created >= Midnight(day) /\ x.created < Midnight(day + 1)))]

\* compute_trend: the hours back from now, each without its end.
TrendHours(rows, now, hours, hour) ==
  [k \in 1 .. hours |->
     LET end == now - (hours - k) * hour IN
     Len(SelectSeq(rows, LAMBDA x : x.created >= end - hour /\ x.created < end))]

\* compute_recent_reviews.
RecentReviews(rows) ==
  LET newest == SortSeq(rows, LAMBDA a, b : a.created > b.created) IN
  SubSeq(newest, 1, Min({Len(rows), RecentLimit}))

\* get_dashboard: without a source the defaults, of which every figure is none.
Dashboard(source) ==
  LET rows == IF source = {} THEN <<>> ELSE CHOOSE r \in source : TRUE IN
  [kpis |-> Kpis(rows), daily |-> TrendDaily(rows), recent |-> RecentReviews(rows)]

-----------------------------------------------------------------------------
(* What the pages promise.                                                 *)

\* The row of a git service speaks of a test made with the address and the token of an
\* entry that is in the list now; a storage verdict that is shown is younger than its
\* time to live; the overall verdict is never better than the storage, and no success
\* without an account that can be asked.
HealthIsOfNow ==
  /\ \A type \in {"gitlab", "github"}, env \in BOOLEAN :
       LET row == IntegrationRow(type, env) IN
       /\ row.by \subseteq {<<p.base, p.token>> : p \in {q \in ToSet(platforms) : q.type = type}}
       /\ row.status = "success" => \A p \in ToSet(platforms) : p.type = type => \A o \in Lookup(p) : o.ok
  /\ \A v \in systemHistory.shown :
       /\ storageTick - v.at < StorageTtl \/ storage = {v}
       /\ target # "sqlite" => v.ok
       /\ \A statuses \in {<<>>, <<"healthy", "disabled">>, <<"error", "healthy">>, <<"unknown">>} :
            LET page == SystemPage(FALSE, statuses, [i \in DOMAIN statuses |-> "base"], v) IN
            /\ ~v.ok => page.health.overall = "error"
            /\ page.health.overall = "success" => page.llmConfigured

\* A verdict of a storage report was fresh when it was given.
FreshWhenShownStep ==
  systemHistory.shown = {} /\ systemHistory'.shown # {} =>
    \A v \in systemHistory'.shown : storageTick - v.at < StorageTtl

\* The figures of the dashboard: no review is in two windows or on two days, and the days
\* add up to the reviews of the fortnight.
DashboardAddsUp ==
  \A rows \in ReviewRows :
    LET kpis == Kpis(rows)
        days == TrendDaily(rows)
        from == Midnight(Today - (TrendDays - 1))
    IN  /\ kpis.reviewsThisWeek + kpis.lastWeek = Len(InWindow(rows, {}, WeekStart - 7 * DayLength, {}))
        /\ FoldLeft(+, 0, days) = Len(SelectSeq(rows, LAMBDA x : x.created >= from /\ x.created < Midnight(Today + 1)))
        /\ FoldLeft(+, 0, TrendHours(rows, DayStart + 5, 4, 2)) = Len(SelectSeq(rows, LAMBDA x : x.created \in DayStart - 3 .. DayStart + 4))
        /\ Dashboard({}).kpis.successRate = {} /\ Dashboard({rows}).kpis = kpis
        /\ \A r \in kpis.successRate : r \in 0 .. 1000
        /\ \A d \in kpis.successTrend : d \in -1000 .. 1000
        /\ LET recent == RecentReviews(rows) IN
           \A i \in DOMAIN recent : Cardinality({k \in DOMAIN rows : rows[k].created > recent[i].created}) < i

-----------------------------------------------------------------------------
(***************************************************************************)
(* The catalogue of providers and models: server/api/catalog.rs over       *)
(* catalog/mod.rs and catalog/client.rs.  A catalogue is known by the time *)
(* it was fetched; the built-in one is 0.                                  *)
(***************************************************************************)

CONSTANTS
  CatalogReader, CatalogTtl, MaxCatalogClock, MaxCatalogReads,
  FirstDisk          \* disk caches at start: options of a time, {-1} = unreadable

VARIABLES
  catalogClock,
  catalogCache,      \* CatalogStore::cache, an option of [of, at]
  catalogDisk,       \* the file, an option of a time
  fetchLock,         \* who holds fetch_lock, an option
  catalogRead,       \* reader -> [pc, got]
  catalogHistory     \* fetches under way, disk writes that failed, reads

catalogVars == <<catalogClock, catalogCache, catalogDisk, fetchLock, catalogRead, catalogHistory>>

NoRead == [pc |-> "idle", got |-> {}]

CatalogInit ==
  /\ catalogClock = 1 /\ catalogCache = {} /\ catalogDisk \in FirstDisk /\ fetchLock = {}
  /\ catalogRead = [r \in CatalogReader |-> NoRead]
  /\ catalogHistory = [lostWrite |-> FALSE, reads |-> 0]

\* fresh_cached.
FreshCached == {c \in catalogCache : c.at + CatalogTtl > catalogClock}

Reads(r, pc, got) == catalogRead' = [catalogRead EXCEPT ![r] = [pc |-> pc, got |-> got]]

\* resolve_catalog: a fresh catalogue at once, else in line for the fetch.
ResolveCatalog(r) ==
  /\ catalogRead[r].pc = "idle" /\ catalogHistory.reads < MaxCatalogReads
  /\ IF FreshCached # {} THEN Reads(r, "served", {c.of : c \in FreshCached}) ELSE Reads(r, "line", {})
  /\ catalogHistory' = [catalogHistory EXCEPT !.reads = @ + 1]
  /\ UNCHANGED <<catalogClock, catalogCache, catalogDisk, fetchLock>>

\* With the lock: another may have fetched meanwhile.
TakeFetchLock(r) ==
  /\ catalogRead[r].pc = "line" /\ fetchLock = {}
  /\ IF FreshCached # {}
     THEN Reads(r, "served", {c.of : c \in FreshCached}) /\ UNCHANGED fetchLock
     ELSE Reads(r, "fetch", {}) /\ fetchLock' = {r}
  /\ UNCHANGED <<catalogClock, catalogCache, catalogDisk, catalogHistory>>

\* load_disk_cache: nothing of a file that is too large or cannot be read.
LoadDisk == catalogDisk \ {-1}

\* write_disk_cache: through a temporary file, so a failure leaves the old one.
WriteDisk(saved) == IF saved THEN {catalogClock} ELSE catalogDisk

\* fetch_or_disk_fallback: the network, whose answer is also written to disk if it can be;
\* else the disk, of any age; else an error.
FetchOrDiskFallback ==
  {[got |-> {catalogClock}, disk |-> WriteDisk(saved), lost |-> ~saved] : saved \in BOOLEAN}
  \cup {[got |-> LoadDisk, disk |-> catalogDisk, lost |-> FALSE]}

\* resolve_catalog after the lock: what came is cached under the time it was fetched; after
\* an error what is in memory is served, else the built-in list, and nothing is cached.
FetchCatalog(r) ==
  /\ catalogRead[r].pc = "fetch" /\ fetchLock' = {}
  /\ \E f \in FetchOrDiskFallback :
       /\ catalogDisk' = f.disk
       /\ catalogHistory' = [catalogHistory EXCEPT !.lostWrite = @ \/ f.lost]
       /\ catalogCache' = IF f.got = {} THEN catalogCache ELSE {[of |-> t, at |-> t] : t \in f.got}
       /\ Reads(r, "served", IF f.got # {} THEN f.got
                             ELSE IF catalogCache # {} THEN {c.of : c \in catalogCache} ELSE {0})
  /\ UNCHANGED catalogClock

\* list_providers and provider_models answer from what they were served.
CatalogAnswered(r) ==
  /\ catalogRead[r].pc = "served" /\ Reads(r, "idle", {})
  /\ UNCHANGED <<catalogClock, catalogCache, catalogDisk, fetchLock, catalogHistory>>

CatalogTick ==
  /\ catalogClock < MaxCatalogClock /\ catalogClock' = catalogClock + 1
  /\ UNCHANGED <<catalogCache, catalogDisk, fetchLock, catalogRead, catalogHistory>>

CatalogNext ==
  \/ \E r \in CatalogReader : \/ ResolveCatalog(r) \/ TakeFetchLock(r) \/ FetchCatalog(r) \/ CatalogAnswered(r)
  \/ CatalogTick

\* The client has a timeout and the lock is fair.
CatalogFairness ==
  \A r \in CatalogReader : /\ SF_catalogVars(TakeFetchLock(r))
                           /\ WF_catalogVars(FetchCatalog(r)) /\ WF_catalogVars(CatalogAnswered(r))

\* One fetch at a time; what is cached carries the time it was fetched, so a catalogue
\* from disk is not taken for a fresh one.
CatalogIsDated ==
  /\ Cardinality({r \in CatalogReader : catalogRead[r].pc = "fetch"}) <= 1
  /\ \A c \in catalogCache : c.of = c.at
  /\ \A r \in CatalogReader : catalogRead[r].pc = "served" => catalogRead[r].got # {}

\* As long as every answer of the network reached the disk, the catalogue in memory is
\* never replaced by an older one.
CatalogNeverRunsBackStep ==
  ~catalogHistory'.lostWrite =>
    \A c \in catalogCache, d \in catalogCache' : d.of >= c.of

=============================================================================
