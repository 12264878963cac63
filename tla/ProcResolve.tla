----------------------------- MODULE ProcResolve -----------------------------
(***************************************************************************)
(* From a socket's inode to the identity rules are matched on: the second  *)
(* half of process_resolve, with the kernel exec table it reads.  Every    *)
(* fact comes from a separate read of /proc, and between any two reads the *)
(* process may exec, fork, close the socket, exit and leave its pid to     *)
(* another, and the file it runs may be written, upgraded or unlinked.     *)
(*                                                                         *)
(* All images present one path: the host's file, its successor after an    *)
(* upgrade, and Foreign, a file mounted over that path in a namespace of   *)
(* its owner's.  A process is "plain", "unshared" (in user and mount       *)
(* namespaces of its own) or "through" (in ours, but running the foreign   *)
(* file through another process's root).                                   *)
(***************************************************************************)
EXTENDS Naturals, Sequences, FiniteSets

CONSTANTS
    PidSet, UidSet,
    HostFiles,          \* the host's file and its successors
    Foreign,            \* the file of another mount
    NoFile,
    DigestSettle,       \* DIGEST_SETTLE in ticks
    ShaCap,             \* CACHE_CAP, for digests
    MaxBirths, MaxTick, MaxWorld, MaxResolves   \* bounds of the model

ASSUME ResolveAssumption ==
    /\ Foreign \notin HostFiles /\ NoFile \notin HostFiles \cup {Foreign} /\ HostFiles # {}
    /\ 1 \in PidSet /\ {DigestSettle, ShaCap} \subseteq Nat \ {0}

VARIABLES
    proc,        \* pid -> its process, or Dead
    births,      \* processes started so far; a process's number is its start time
    file,        \* file -> content and ctime
    hostAt,      \* the file the path names in the daemon's namespace, or NoFile
    foreignLinked,
    tick, world, \* time; changes of the surroundings so far
    events,      \* exec events not yet consumed
    ktab,        \* KernelProcTable: pid -> record, or NoRecord
    inodeCache,  \* INODE_PID_CACHE for this inode: a set of at most one pid
    shaCache,    \* SHA_CACHE, oldest first
    res,         \* the worker's resolution under way
    resolves,
    ran, hostGone  \* history of this resolution: who ran what; was the path ever free

worldVars == <<proc, births, file, hostAt, foreignLinked, tick, world, events>>
cacheVars == <<ktab, inodeCache, shaCache>>
ghostVars == <<ran, hostGone>>
resolveVars == <<worldVars, cacheVars, res, resolves, ghostVars>>

Dead == [born |-> 0]
Alive(p) == proc[p] # Dead
NoRecord == [uid |-> 0]
NoImage == [file |-> NoFile, key |-> <<>>, path |-> "unknown"]
Idle == [pc |-> "idle", pid |-> 0, cached |-> FALSE, start |-> 0, kern |-> NoRecord, uid |-> 0,
         image |-> NoImage, unlinked |-> FALSE, digest |-> <<>>, cacheable |-> FALSE]

Linked(f) == IF f = Foreign THEN foreignLinked ELSE hostAt = f
\* What /proc/<pid>/exe reads for an image: a file with no link left gets a suffix.
LinkPath(f) == IF Linked(f) THEN "path" ELSE "path (deleted)"
ImageKey(f) == <<f, file[f].ctime>>
StartTime(p) == proc[p].born

\* Whether the path in the daemon's own namespace can stand for the image; a path
\* that names nothing here is left as it is.
PathNamesImage(path, f) == path = "path (deleted)" \/ hostAt = NoFile \/ hostAt = f

\* The image was opened through a mount of the process's own namespace.
MountedIn(f, p) == Alive(p) /\ (f = Foreign => proc[p].kind = "unshared")
InOurUserNamespace(p) == Alive(p) /\ proc[p].kind # "unshared"

\* policy_exe_path: the suffix goes only when the image has no link left.
PolicyExePath(path, unlinked) == IF unlinked /\ path = "path (deleted)" THEN "path" ELSE path

\* Faulty variant: the key is the same, so the digest is cached at once.
SettledAtOnce(f) == TRUE
\* A change during or after the read gets a later ctime than the key's.
Settled(f) == tick - file[f].ctime >= DigestSettle

\* TtlCache::insert at its cap: the oldest entry goes.
CacheInsert(cache, key, value, cap) ==
    LET at   == {i \in 1..Len(cache) : cache[i].key = key}
        old  == CHOOSE i \in at : TRUE
        kept == IF at = {} THEN cache
                ELSE SubSeq(cache, 1, old - 1) \o SubSeq(cache, old + 1, Len(cache))
        room == IF Len(kept) >= cap THEN Tail(kept) ELSE kept IN
    Append(room, [key |-> key, value |-> value])
CacheGet(cache, key) == {cache[i].value : i \in {j \in 1..Len(cache) : cache[j].key = key}}

(***************************************************************************)
(* The surroundings.                                                       *)
(***************************************************************************)

Note(p, q) == ran' = ran \cup {<<p, q.born, q.image>>}
WorldStep == world < MaxWorld /\ world' = world + 1

Fork(parent, p) ==
    /\ WorldStep /\ births < MaxBirths /\ Alive(parent) /\ ~Alive(p)
    /\ births' = births + 1
    /\ proc' = [proc EXCEPT ![p] = [proc[parent] EXCEPT !.born = births + 1]]
    /\ Note(p, [proc[parent] EXCEPT !.born = births + 1])
    /\ UNCHANGED <<file, hostAt, foreignLinked, tick, events, cacheVars, res, resolves, hostGone>>

\* exec keeps the start time; the socket survives it unless marked close-on-exec.
Exec(p, f, keep, uid) ==
    LET q == [born |-> proc[p].born, image |-> f, kind |-> proc[p].kind, uid |-> uid,
              holds |-> proc[p].holds /\ keep] IN
    /\ WorldStep /\ Alive(p)
    /\ Linked(f)
    /\ f = Foreign => proc[p].kind \in {"unshared", "through"}
    /\ f # Foreign => hostAt = f
    /\ proc' = [proc EXCEPT ![p] = q]
    /\ events' = Append(events, [pid |-> p, uid |-> uid, born |-> proc[p].born])
    /\ Note(p, q)
    /\ UNCHANGED <<births, file, hostAt, foreignLinked, tick, cacheVars, res, resolves, hostGone>>

Exits(p) ==
    /\ WorldStep /\ Alive(p)
    /\ proc' = [proc EXCEPT ![p] = Dead]
    /\ UNCHANGED <<births, file, hostAt, foreignLinked, tick, events, cacheVars, res, resolves, ghostVars>>

Writes(f) ==
    /\ WorldStep
    /\ file' = [file EXCEPT ![f] = [content |-> @.content + 1, ctime |-> tick]]
    /\ UNCHANGED <<proc, births, hostAt, foreignLinked, tick, events, cacheVars, res, resolves, ghostVars>>

\* An upgrade renames a successor over the path; a removal leaves nothing there.
HostPathChanges(f) ==
    /\ WorldStep /\ f # hostAt
    /\ hostAt' = f
    /\ file' = [g \in DOMAIN file |-> IF g \in {f, hostAt} THEN [file[g] EXCEPT !.ctime = tick] ELSE file[g]]
    /\ hostGone' = (hostGone \/ f = NoFile)
    /\ UNCHANGED <<proc, births, foreignLinked, tick, events, cacheVars, res, resolves, ran>>

ForeignUnlinked ==
    /\ WorldStep /\ foreignLinked
    /\ foreignLinked' = FALSE
    /\ file' = [file EXCEPT ![Foreign].ctime = tick]
    /\ UNCHANGED <<proc, births, hostAt, tick, events, cacheVars, res, resolves, ghostVars>>

Tick ==
    /\ tick < MaxTick /\ tick' = tick + 1
    /\ UNCHANGED <<proc, births, file, hostAt, foreignLinked, world, events, cacheVars, res, resolves, ghostVars>>

(***************************************************************************)
(* KernelProcTable.                                                        *)
(***************************************************************************)

\* The consumer reads the pid's start time when it gets the event, which may be the
\* start time of a later process, or none.
ObserveExec ==
    LET e == Head(events) IN
    /\ events # <<>>
    /\ events' = Tail(events)
    /\ ktab' = [ktab EXCEPT ![e.pid] = [uid |-> e.uid, start |-> StartTime(e.pid), of |-> e.born]]
    /\ UNCHANGED <<proc, births, file, hostAt, foreignLinked, tick, world, inodeCache, shaCache, res, resolves, ghostVars>>

\* observe_exit, the TTL and the trimming at the cap: a record leaves.
RecordLeaves(p) ==
    /\ ktab[p] # NoRecord
    /\ ktab' = [ktab EXCEPT ![p] = NoRecord]
    /\ UNCHANGED <<worldVars, inodeCache, shaCache, res, resolves, ghostVars>>

\* KernelProcTable::get: what it returns and what it leaves in the table.
TableGet(r, start) ==
    CASE r = NoRecord -> [found |-> NoRecord, left |-> NoRecord]
      [] r # NoRecord /\ r.start = start -> [found |-> r, left |-> r]
      [] r # NoRecord /\ r.start = 0 -> [found |-> r, left |-> [r EXCEPT !.start = start]]
      [] OTHER -> [found |-> NoRecord, left |-> NoRecord]

(***************************************************************************)
(* pid_owning_inode: the cache, the hints and the walk all come down to    *)
(* verified probes of one pid.                                             *)
(***************************************************************************)

To(pc) == res' = [res EXCEPT !.pc = pc]
Worker == UNCHANGED <<worldVars, ghostVars, resolves>>

ResolveBegins ==
    /\ res.pc = "idle" /\ resolves < MaxResolves
    /\ resolves' = resolves + 1
    /\ To("probe")
    /\ ran' = {<<p, proc[p].born, proc[p].image>> : p \in {q \in PidSet : Alive(q)}}
    /\ hostGone' = (hostAt = NoFile)
    /\ UNCHANGED <<worldVars, cacheVars>>

\* The cookie's pid, the cached one, the recent ones, then every pid; each is read
\* for its start time first.
Probe(p) ==
    /\ res.pc = "probe" /\ Alive(p)
    /\ res' = [res EXCEPT !.pc = "fd", !.pid = p, !.start = StartTime(p), !.cached = p \in inodeCache]
    /\ Worker /\ UNCHANGED cacheVars

\* A hit whose descriptor is gone drops the cached entry, and the search goes on.
ProbeFd ==
    /\ res.pc = "fd"
    /\ IF Alive(res.pid) /\ proc[res.pid].holds
       THEN To("again") /\ UNCHANGED inodeCache
       ELSE To("probe") /\ inodeCache' = IF res.cached THEN {} ELSE inodeCache
    /\ Worker /\ UNCHANGED <<ktab, shaCache>>

ProbeAgain ==
    /\ res.pc = "again"
    /\ IF StartTime(res.pid) = res.start
       THEN To("owner") /\ inodeCache' = {res.pid}
       ELSE To("probe") /\ inodeCache' = IF res.cached THEN {} ELSE inodeCache
    /\ Worker /\ UNCHANGED <<ktab, shaCache>>

\* The budget ends, or no process holds the socket: the flow stays unattributed.
NoOwner ==
    /\ res.pc \in {"probe", "fd", "again"}
    /\ res' = Idle
    /\ Worker /\ UNCHANGED cacheVars

(***************************************************************************)
(* SocketOwner::resolve.                                                   *)
(***************************************************************************)

Unknown == [res EXCEPT !.image = NoImage, !.unlinked = FALSE, !.digest = <<>>]

\* The start time, then the exec record.
ResolveStart ==
    /\ res.pc = "owner"
    /\ LET got == TableGet(ktab[res.pid], res.start) IN
       \/ /\ StartTime(res.pid) # res.start
          /\ res' = Idle /\ UNCHANGED ktab
       \/ /\ StartTime(res.pid) = res.start
          /\ res' = [res EXCEPT !.pc = "open", !.kern = got.found]
          /\ ktab' = [ktab EXCEPT ![res.pid] = got.left]
    /\ Worker /\ UNCHANGED <<inodeCache, shaCache>>

\* MappedImage::open: the file and its key ...
ImageOpen ==
    /\ res.pc = "open"
    /\ res' = IF Alive(res.pid)
              THEN [res EXCEPT !.pc = "link", !.image = [file |-> proc[res.pid].image,
                      key |-> ImageKey(proc[res.pid].image), path |-> "unknown"]]
              ELSE [Unknown EXCEPT !.pc = "creds"]
    /\ Worker /\ UNCHANGED cacheVars

\* ... then the link, which must still be to a file of that key.
ImageLink ==
    /\ res.pc = "link"
    /\ res' = IF Alive(res.pid) /\ ImageKey(proc[res.pid].image) = res.image.key
              THEN [res EXCEPT !.pc = "creds", !.image.path = LinkPath(proc[res.pid].image)]
              ELSE [Unknown EXCEPT !.pc = "creds"]
    /\ Worker /\ UNCHANGED cacheVars

\* The record's credentials, or those of /proc/<pid>/status.
Credentials ==
    /\ res.pc = "creds"
    /\ res' = [res EXCEPT !.pc = IF res.image = NoImage THEN "filter" ELSE "finish",
                 !.uid = CASE res.kern # NoRecord -> res.kern.uid
                           [] res.kern = NoRecord /\ Alive(res.pid) -> proc[res.pid].uid
                           [] OTHER -> 0]
    /\ Worker /\ UNCHANGED cacheVars

\* MappedImage::finish, up to the hash.
FinishChecks ==
    LET f == res.image.file IN
    /\ res.pc = "finish"
    /\ res' = IF ImageKey(f) = res.image.key /\ PathNamesImage(res.image.path, f)
              THEN [res EXCEPT !.pc = "hash", !.unlinked = ~Linked(f) /\ MountedIn(f, res.pid)]
              ELSE [Unknown EXCEPT !.pc = "filter"]
    /\ Worker /\ UNCHANGED cacheVars

\* sha256_open_file: a cached digest of this key, or the content read now.
HashBegin ==
    LET f == res.image.file
        hit == CacheGet(shaCache, ImageKey(f)) IN
    /\ res.pc = "hash"
    /\ res' = IF hit # {} THEN [res EXCEPT !.pc = "recheck", !.digest = <<CHOOSE v \in hit : TRUE>>]
              ELSE [res EXCEPT !.pc = "read", !.image.key = ImageKey(f), !.cacheable = Settled(f)]
    /\ Worker /\ UNCHANGED cacheVars

HashRead ==
    /\ res.pc = "read"
    /\ res' = [res EXCEPT !.pc = "hashed", !.digest = <<file[res.image.file].content>>]
    /\ Worker /\ UNCHANGED cacheVars

HashEnd ==
    LET same == ImageKey(res.image.file) = res.image.key IN
    /\ res.pc = "hashed"
    /\ res' = [res EXCEPT !.pc = "recheck", !.digest = IF same THEN @ ELSE <<>>]
    /\ shaCache' = IF same /\ res.cacheable
                   THEN CacheInsert(shaCache, res.image.key, res.digest[1], ShaCap) ELSE shaCache
    /\ Worker /\ UNCHANGED <<ktab, inodeCache>>

\* The link and the key once more, then the user namespace.
FinishRecheck ==
    LET still == /\ Alive(res.pid)
                 /\ ImageKey(proc[res.pid].image) = res.image.key
                 /\ LinkPath(proc[res.pid].image) = res.image.path IN
    /\ res.pc = "recheck"
    /\ res' = IF still THEN [res EXCEPT !.pc = "filter", !.unlinked = @ /\ InOurUserNamespace(res.pid)]
              ELSE [Unknown EXCEPT !.pc = "filter"]
    /\ Worker /\ UNCHANGED cacheVars

\* The image counts only for the process that was found.
SameProcess(p, start) == StartTime(p) = start

StartFilter ==
    /\ res.pc = "filter"
    /\ res' = [(IF SameProcess(res.pid, res.start) THEN res ELSE Unknown) EXCEPT !.pc = "holds"]
    /\ Worker /\ UNCHANGED cacheVars

\* The descriptor and the start time decide whether anything is published.
StillHolds ==
    /\ res.pc = "holds"
    /\ res' = IF Alive(res.pid) /\ proc[res.pid].holds THEN [res EXCEPT !.pc = "last"] ELSE Idle
    /\ Worker /\ UNCHANGED cacheVars

PublishIdentity ==
    /\ res.pc = "last"
    /\ res' = IF SameProcess(res.pid, res.start)
              THEN [res EXCEPT !.pc = "published", !.image.path = PolicyExePath(@, res.unlinked)]
              ELSE Idle
    /\ Worker /\ UNCHANGED cacheVars

IdentityUsed == res.pc = "published" /\ res' = Idle /\ Worker /\ UNCHANGED cacheVars

ResolveInit ==
    /\ proc = [p \in PidSet |->
         IF p = 1 THEN [born |-> 1, image |-> CHOOSE f \in HostFiles : TRUE, kind |-> "plain", uid |-> 1, holds |-> TRUE]
         ELSE IF p = 2 THEN [born |-> 2, image |-> Foreign, kind |-> "unshared", uid |-> 2, holds |-> TRUE]
         ELSE IF p = 3 THEN [born |-> 3, image |-> Foreign, kind |-> "through", uid |-> 2, holds |-> TRUE]
         ELSE Dead]
    /\ births = 3
    /\ file = [f \in HostFiles \cup {Foreign} |-> [content |-> 0, ctime |-> 0]]
    /\ hostAt = CHOOSE f \in HostFiles : TRUE
    /\ foreignLinked = TRUE /\ tick = 0 /\ world = 0
    /\ events = <<[pid |-> 1, uid |-> 1, born |-> 1]>>
    /\ ktab = [p \in PidSet |-> NoRecord] /\ inodeCache = {} /\ shaCache = <<>>
    /\ res = Idle /\ resolves = 0 /\ ran = {} /\ hostGone = FALSE

ResolveNext ==
    \/ \E p \in PidSet : \/ Exits(p) \/ RecordLeaves(p) \/ Probe(p)
                         \/ \E q \in PidSet : Fork(q, p)
                         \/ \E f \in HostFiles \cup {Foreign}, keep \in BOOLEAN, u \in UidSet : Exec(p, f, keep, u)
    \/ \E f \in HostFiles \cup {Foreign} : Writes(f)
    \/ \E f \in HostFiles \cup {NoFile} : HostPathChanges(f)
    \/ ForeignUnlinked \/ Tick \/ ObserveExec
    \/ ResolveBegins \/ ProbeFd \/ ProbeAgain \/ NoOwner
    \/ ResolveStart \/ ImageOpen \/ ImageLink \/ Credentials \/ FinishChecks
    \/ HashBegin \/ HashRead \/ HashEnd \/ FinishRecheck \/ StartFilter \/ StillHolds \/ PublishIdentity \/ IdentityUsed

(***************************************************************************)
(* Properties.                                                             *)
(***************************************************************************)

Published == res.pc = "published" /\ res.image # NoImage

\* path_names_image, mounted_in and the user-namespace check: while the host has a
\* file at the path, no other mount's file is published under that path, linked
\* or not.
NoBorrowedPath == Published /\ ~hostGone /\ res.image.file = Foreign => res.image.path # "path"

\* SHA_CACHE: an entry whose key is a file's present key holds the digest of that
\* file's present content, though the file may be written while it is hashed and
\* within the tick of its last change.
CachedDigestRight ==
    \A i \in 1..Len(shaCache), f \in HostFiles \cup {Foreign} :
        shaCache[i].key = ImageKey(f) => shaCache[i].value = file[f].content

\* KernelProcTable::get: a record the consumer verified at once never lends its
\* credentials to another process of the same pid.
CredsOfHolder ==
    res.pc = "published" /\ res.kern # NoRecord /\ res.kern.start = res.kern.of => res.kern.of = res.start

\* SocketOwner::resolve: the image published was mapped during the resolution by
\* the very process found holding the socket, whatever execs, exits and reuses of
\* its pid came between the reads; its path, its digest and its credentials are
\* that process's too.
IdentityOfHolder ==
    /\ Published => <<res.pid, res.start, res.image.file>> \in ran
    /\ NoBorrowedPath /\ CachedDigestRight /\ CredsOfHolder
==============================================================================
