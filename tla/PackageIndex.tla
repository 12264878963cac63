---------------------------- MODULE PackageIndex ----------------------------
(***************************************************************************)
(* provenance: which package an executable came from, and whether the      *)
(* running bytes are the ones it shipped.  An index of the package         *)
(* database is valid while the database's stamp is the one it was built    *)
(* from.  Only the warming thread builds it, holding the write lock all    *)
(* the while; the packet thread answers NotReady rather than wait.  What a *)
(* lookup finds is remembered per executable file.                         *)
(*                                                                         *)
(* One executable is followed.  Its owner in the database is a package     *)
(* version, or NoPkg; the digest a version records is the version.         *)
(***************************************************************************)
EXTENDS Naturals, FiniteSets

CONSTANTS
    Backends,          \* the databases a host may have, most telling first
    MaxPkgSteps        \* bound of the model on changes of the surroundings

VARIABLES
    backend,     \* BACKEND: "undetected", "none" or a member of Backends
    pkgOn,       \* ENABLED
    db,          \* the database: stamp and the executable's owner
    exeFile,     \* the executable on disk: its key (dev, inode, mtime) and bytes
    pkgSteps,
    index,       \* the index, if any: [built, stamp, owner]
    builder,     \* the warming thread: [pc, stamp]; it holds the write lock while building
    query,       \* the packet thread's lookup: [pc, key, stamp, digest, owner]
    lookupCache, \* LOOKUP_CACHE: file key -> the record found
    shown,       \* the last answer: package and provenance
    seenOwners   \* history: the owners the database had since the lookup began

pkgVars == <<backend, pkgOn, db, exeFile, pkgSteps, index, builder, query, lookupCache, shown, seenOwners>>

NoPkg == 0
NoStamp == 0
IdleQuery == [pc |-> "idle", key |-> 0, stamp |-> 0, bytes |-> 0, owner |-> NoPkg]
UnknownAnswer == [pkg |-> NoPkg, provenance |-> "unknown", bytes |-> 0, was |-> {}]

\* decide: only a recorded digest can be compared, and dpkg records none.
Decide(record, bytes) ==
    CASE record.pkg = NoPkg -> "unpackaged"
      [] record.pkg # NoPkg /\ (record.digest = {} \/ bytes = 0) -> "unknown"
      [] record.pkg # NoPkg /\ record.digest = {bytes} /\ bytes # 0 -> "verified"
      [] OTHER -> "modified"

\* A failed rpm query leaves an index that is never current.
\* Faulty variant: it is stamped like any other.
FailedIndexStamped(stamp) == [built |-> TRUE, stamp |-> stamp, owner |-> NoPkg]
FailedIndex(stamp) == [built |-> TRUE, stamp |-> NoStamp, owner |-> NoPkg]

\* The stamp is the one read before the database was.
BuiltIndex(stamp) == [built |-> TRUE, stamp |-> stamp, owner |-> builder.read]

\* The digest the database vouches for: rpm's from the index, pacman's from the
\* owning package's mtree as it is now, which is gone after an upgrade.
DigestOf(owner) ==
    CASE backend = "rpm" -> {owner}
      [] backend = "pacman" -> IF db.owner = owner THEN {owner} ELSE {}
      [] OTHER -> {}

(***************************************************************************)
(* The surroundings: package transactions, replaced files, the switch.     *)
(***************************************************************************)

PkgStep == pkgSteps < MaxPkgSteps /\ pkgSteps' = pkgSteps + 1

DbCommits(owner) ==
    /\ PkgStep /\ owner # db.owner
    /\ db' = [stamp |-> db.stamp + 1, owner |-> owner]
    /\ seenOwners' = seenOwners \cup {owner}
    /\ UNCHANGED <<backend, pkgOn, exeFile, index, builder, query, lookupCache, shown>>

FileReplaced(bytes) ==
    /\ PkgStep
    /\ exeFile' = [key |-> exeFile.key + 1, bytes |-> bytes]
    /\ UNCHANGED <<backend, pkgOn, db, index, builder, query, lookupCache, shown, seenOwners>>

SetEnabled ==
    /\ PkgStep /\ pkgOn' = ~pkgOn
    /\ UNCHANGED <<backend, db, exeFile, index, builder, query, lookupCache, shown, seenOwners>>

\* detect, on the first use: the first database directory that exists.
Detect(b) ==
    /\ backend = "undetected"
    /\ backend' = b
    /\ UNCHANGED <<pkgOn, db, exeFile, pkgSteps, index, builder, query, lookupCache, shown, seenOwners>>

(***************************************************************************)
(* warm, on the blocking pool: record_of with leave to build.              *)
(***************************************************************************)

WarmBegins ==
    /\ builder.pc = "idle" /\ pkgOn /\ backend \in Backends
    /\ builder' = [pc |-> "check", stamp |-> db.stamp, read |-> NoPkg]
    /\ UNCHANGED <<backend, pkgOn, db, exeFile, pkgSteps, index, query, lookupCache, shown, seenOwners>>

\* A current index is left alone; otherwise the write lock is taken.
WarmChecks ==
    /\ builder.pc = "check"
    /\ builder' = [builder EXCEPT !.pc = IF index.built /\ index.stamp = builder.stamp THEN "idle" ELSE "building"]
    /\ UNCHANGED <<backend, pkgOn, db, exeFile, pkgSteps, index, query, lookupCache, shown, seenOwners>>

\* build_index reads the database at some moment; rpm may fail or run into its
\* timeout.
WarmReads ==
    /\ builder.pc = "building"
    /\ builder' = [pc |-> "store", stamp |-> builder.stamp, read |-> db.owner]
    /\ UNCHANGED <<backend, pkgOn, db, exeFile, pkgSteps, index, query, lookupCache, shown, seenOwners>>

WarmStores ==
    /\ builder.pc = "store"
    /\ index' = BuiltIndex(builder.stamp)
    /\ builder' = [builder EXCEPT !.pc = "idle"]
    /\ UNCHANGED <<backend, pkgOn, db, exeFile, pkgSteps, query, lookupCache, shown, seenOwners>>

WarmFails ==
    /\ builder.pc = "building" /\ backend = "rpm"
    /\ index' = FailedIndex(builder.stamp)
    /\ builder' = [builder EXCEPT !.pc = "idle"]
    /\ UNCHANGED <<backend, pkgOn, db, exeFile, pkgSteps, query, lookupCache, shown, seenOwners>>

Building == builder.pc \in {"building", "store"}

(***************************************************************************)
(* describe, on the packet thread.                                         *)
(***************************************************************************)

\* Disabled, no database, a deleted or relative path, or a file that cannot be
\* found: unknown.  Otherwise the file's key, and the cache.
DescribeBegins(bytes) ==
    LET answer(r) == [pkg |-> r.pkg, provenance |-> Decide(r, bytes), bytes |-> bytes, was |-> r.was] IN
    /\ query.pc = "idle" /\ backend # "undetected"
    /\ \/ /\ ~pkgOn \/ backend = "none"
          /\ shown' = UnknownAnswer /\ UNCHANGED <<query, seenOwners>>
       \/ /\ pkgOn /\ backend # "none" /\ exeFile.key \in DOMAIN lookupCache
          /\ shown' = answer(lookupCache[exeFile.key]) /\ UNCHANGED <<query, seenOwners>>
       \/ /\ pkgOn /\ backend # "none" /\ exeFile.key \notin DOMAIN lookupCache
          /\ query' = [pc |-> "read", key |-> exeFile.key, stamp |-> db.stamp, bytes |-> bytes, owner |-> NoPkg]
          /\ seenOwners' = {db.owner} /\ UNCHANGED shown
    /\ UNCHANGED <<backend, pkgOn, db, exeFile, pkgSteps, index, builder, lookupCache>>

\* record_of without leave to build: a locked, missing or stale index is NotReady,
\* which is not remembered.
QueryNotReady ==
    /\ query.pc = "read"
    /\ Building \/ ~index.built \/ index.stamp # query.stamp
    /\ query' = IdleQuery /\ shown' = UnknownAnswer
    /\ UNCHANGED <<backend, pkgOn, db, exeFile, pkgSteps, index, builder, lookupCache, seenOwners>>

QueryIndex ==
    /\ query.pc = "read" /\ ~Building /\ index.built /\ index.stamp = query.stamp
    /\ query' = [pc |-> "digest", key |-> query.key, stamp |-> query.stamp, bytes |-> query.bytes,
                 owner |-> index.owner]
    /\ UNCHANGED <<backend, pkgOn, db, exeFile, pkgSteps, index, builder, lookupCache, shown, seenOwners>>

\* The digest, the memo and the verdict.
QueryEnds ==
    LET record == [pkg |-> query.owner, digest |-> IF query.owner = NoPkg THEN {} ELSE DigestOf(query.owner),
                   was |-> seenOwners] IN
    /\ query.pc = "digest"
    /\ lookupCache' = [k \in DOMAIN lookupCache \cup {query.key} |->
                         IF k = query.key THEN record ELSE lookupCache[k]]
    /\ shown' = [pkg |-> record.pkg, provenance |-> Decide(record, query.bytes), bytes |-> query.bytes,
                 was |-> record.was]
    /\ query' = IdleQuery
    /\ UNCHANGED <<backend, pkgOn, db, exeFile, pkgSteps, index, builder, seenOwners>>

\* The hour's TTL, and eviction at the cap.
LookupForgotten(k) ==
    /\ lookupCache' = [j \in DOMAIN lookupCache \ {k} |-> lookupCache[j]]
    /\ UNCHANGED <<backend, pkgOn, db, exeFile, pkgSteps, index, builder, query, shown, seenOwners>>

PkgInit ==
    /\ backend = "undetected" /\ pkgOn = TRUE
    /\ db = [stamp |-> 1, owner |-> 1] /\ exeFile = [key |-> 1, bytes |-> 1] /\ pkgSteps = 0
    /\ index = [built |-> FALSE, stamp |-> NoStamp, owner |-> NoPkg]
    /\ builder = [pc |-> "idle", stamp |-> NoStamp, read |-> NoPkg]
    /\ query = IdleQuery /\ lookupCache = [k \in {} |-> 0] /\ shown = UnknownAnswer /\ seenOwners = {}

PkgNext ==
    \/ \E b \in Backends \cup {"none"} : Detect(b)
    \/ \E v \in 0..2 : DbCommits(v) \/ (v > 0 /\ FileReplaced(v)) \/ DescribeBegins(v)
    \/ SetEnabled \/ WarmBegins \/ WarmChecks \/ WarmReads \/ WarmStores \/ WarmFails
    \/ QueryNotReady \/ QueryIndex \/ QueryEnds
    \/ \E k \in DOMAIN lookupCache : LookupForgotten(k)

(***************************************************************************)
(* Properties.                                                             *)
(***************************************************************************)

\* Index.stamp: an index that passes for current holds what the database holds,
\* though the database may change while the index is built.
IndexFresh == index.built /\ index.stamp = db.stamp => index.owner = db.owner

\* Decide: "modified" is only said of bytes the recorded version does not have;
\* a database without digests never accuses a file.
ModifiedMeansDifferent ==
    shown.provenance = "modified" => backend # "dpkg" /\ shown.bytes # shown.pkg /\ shown.bytes # 0

\* describe: an executable is shown as unpackaged, or as a package's, only when
\* the database said so at some moment of the lookup that found it; a failed,
\* missing or outdated index never reads as "no package", and no file is accused
\* of being modified that is not.
AnswerWasTrue ==
    /\ shown.provenance # "unknown" => shown.pkg \in shown.was
    /\ IndexFresh /\ ModifiedMeansDifferent
==============================================================================
