----------------------------- MODULE BlobStore -----------------------------
(***************************************************************************)
(* Artifacts: put_artifact and get_artifact_uri of crates/actant-storage,  *)
(* and under them the blob stores of crates/actant-objectstore: Layered    *)
(* over the filesystem, memory, S3 and IPFS backends.  A blob's key is its *)
(* hash, so a body is named by its key.  A put on the filesystem writes    *)
(* one .tmp sibling and renames it; processes share the directory.         *)
(***************************************************************************)
EXTENDS Naturals, Sequences, FiniteSets

CONSTANTS
    Procs,       \* callers of put_artifact and of get
    Keys,        \* content hashes
    Defaults,    \* backends a deployment may have as its default
    Routed,      \* schemes registered with with_scheme
    MaxInodes,   \* bound on files created
    MaxRows,     \* bound on artifact rows
    MaxBoots     \* bound on restarts

VARIABLES
    boot,        \* restarts so far: a memory store's id, and the default of the day
    default,
    whole,       \* per file created, by number: all of its bytes are written
    tmp, path,   \* per key: number of the file at that name, 0 for none
    objects,     \* [store, host, key] held by the other backends
    rows,        \* artifact table: uri
    proc,        \* per process: place and locals
    overlapped,  \* history: keys two puts wrote at once
    removed      \* history: uris deleted

vars == <<boot, default, whole, tmp, path, objects, rows, proc, overlapped, removed>>

Nothing == "nothing"
NoUri == [scheme |-> "none", host |-> 0, key |-> Nothing]
Idle == [pc |-> "idle", key |-> Nothing, file |-> 0, uri |-> NoUri, got |-> "none"]
Writing == {"fill", "rename"}

Init ==
    /\ boot = 0 /\ default \in Defaults
    /\ whole = <<>>
    /\ tmp = [k \in Keys |-> 0] /\ path = [k \in Keys |-> 0]
    /\ objects = {} /\ rows = {}
    /\ proc = [p \in Procs |-> Idle]
    /\ overlapped = {} /\ removed = {}

\* A memory store's id is new in every process; S3 has one bucket.
Host(store) == IF store = "mem" THEN boot ELSE 0
UriFor(store, key) == [scheme |-> store, host |-> Host(store), key |-> key]

-----------------------------------------------------------------------------
(* What a backend makes of a key or URI.                                   *)

\* Only the basename counts; another scheme is no safe key.
FileKey(uri) == IF uri.scheme \in {"file", "bare"} THEN uri.key ELSE Nothing

MemKey(uri) == IF uri.scheme = "bare" \/ (uri.scheme = "mem" /\ uri.host = boot) THEN uri.key ELSE Nothing

S3Key(uri) == IF uri.scheme = "bare" \/ (uri.scheme = "s3" /\ uri.host = 0) THEN uri.key ELSE Nothing

\* The node names the blob; the key it was put under is not kept.
CidFrom(uri) == IF uri.scheme = "ipfs" THEN uri.key ELSE Nothing

KeyFrom(store, uri) ==
    CASE store = "file" -> FileKey(uri)
      [] store = "mem" -> MemKey(uri)
      [] store = "s3" -> S3Key(uri)
      [] store = "ipfs" -> CidFrom(uri)

\* Fault: reads go where writes go.
DefaultOnly(uri) == default

Route(uri) == IF uri.scheme \in Routed THEN uri.scheme ELSE default

-----------------------------------------------------------------------------
(* put_artifact.                                                           *)

Other(p, k) == \E q \in Procs \ {p} : proc[q].key = k /\ proc[q].pc \in Writing

PutObject(p, k) ==
    /\ proc[p].pc = "idle" /\ default # "file"
    /\ objects' = objects \cup {[store |-> default, host |-> Host(default), key |-> k]}
    /\ removed' = removed \ {UriFor(default, k)}
    /\ proc' = [proc EXCEPT ![p] = [Idle EXCEPT !.pc = "row", !.key = k, !.uri = UriFor(default, k)]]
    /\ UNCHANGED <<boot, default, whole, tmp, path, rows, overlapped>>

\* The .tmp sibling is created, or emptied if it is there.
OpenTmp(p, k) ==
    /\ proc[p].pc = "idle" /\ default = "file"
    /\ tmp[k] = 0 => Len(whole) < MaxInodes
    /\ whole' = IF tmp[k] = 0 THEN Append(whole, FALSE) ELSE [whole EXCEPT ![tmp[k]] = FALSE]
    /\ tmp' = [tmp EXCEPT ![k] = IF tmp[k] = 0 THEN Len(whole) + 1 ELSE @]
    /\ overlapped' = IF Other(p, k) THEN overlapped \cup {k} ELSE overlapped
    /\ proc' = [proc EXCEPT ![p] = [Idle EXCEPT !.pc = "fill", !.key = k, !.file = tmp'[k]]]
    /\ UNCHANGED <<boot, default, path, objects, rows, removed>>

\* Fault: one write call, which may take only part of the body.
WritesOnce(p) ==
    /\ proc[p].pc = "fill"
    /\ \E all \in BOOLEAN : whole' = [whole EXCEPT ![proc[p].file] = all]
    /\ proc' = [proc EXCEPT ![p].pc = "rename"]
    /\ UNCHANGED <<boot, default, tmp, path, objects, rows, overlapped, removed>>

FillTmp(p) ==
    /\ proc[p].pc = "fill"
    /\ whole' = [whole EXCEPT ![proc[p].file] = TRUE]
    /\ proc' = [proc EXCEPT ![p].pc = "rename"]
    /\ UNCHANGED <<boot, default, tmp, path, objects, rows, overlapped, removed>>

\* Whatever file has the name by now is moved; none is an error.
Rename(p) ==
    /\ proc[p].pc = "rename"
    /\ LET k == proc[p].key IN
       IF tmp[k] = 0
       THEN /\ proc' = [proc EXCEPT ![p] = [Idle EXCEPT !.pc = "failed", !.key = k]]
            /\ UNCHANGED <<tmp, path, removed>>
       ELSE /\ path' = [path EXCEPT ![k] = tmp[k]] /\ tmp' = [tmp EXCEPT ![k] = 0]
            /\ removed' = removed \ {UriFor("file", k)}
            /\ proc' = [proc EXCEPT ![p].pc = "row", ![p].uri = UriFor("file", k)]
    /\ UNCHANGED <<boot, default, whole, objects, rows, overlapped>>

PutArtifact(p) ==
    /\ proc[p].pc = "row"
    /\ rows' = rows \cup {proc[p].uri}
    /\ proc' = [proc EXCEPT ![p] = Idle]
    /\ UNCHANGED <<boot, default, whole, tmp, path, objects, overlapped, removed>>

-----------------------------------------------------------------------------
(* get and delete, by the uri of an artifact row.                          *)

Holds(store, uri) == [store |-> store, host |-> Host(store), key |-> KeyFrom(store, uri)] \in objects

Get(p, uri) ==
    /\ proc[p].pc = "idle"
    /\ LET store == Route(uri)
           k == KeyFrom(store, uri)
           found == IF store = "file" THEN k # Nothing /\ path[k] # 0 ELSE Holds(store, uri)
       IN proc' = [proc EXCEPT ![p] =
            IF ~found THEN [Idle EXCEPT !.pc = "read", !.uri = uri, !.got = "not found"]
            ELSE IF store = "file" THEN [Idle EXCEPT !.pc = "reading", !.uri = uri, !.file = path[k]]
            ELSE [Idle EXCEPT !.pc = "read", !.uri = uri, !.got = "whole"]]
    /\ UNCHANGED <<boot, default, whole, tmp, path, objects, rows, overlapped, removed>>

\* The open file stays readable though the name is moved or unlinked.
ReadToEnd(p) ==
    /\ proc[p].pc = "reading"
    /\ proc' = [proc EXCEPT ![p].pc = "read", ![p].got = IF whole[proc[p].file] THEN "whole" ELSE "part"]
    /\ UNCHANGED <<boot, default, whole, tmp, path, objects, rows, overlapped, removed>>

\* Fault: a left-over .tmp sibling is removed with the blob.
SweepsTmp(uri) ==
    /\ LET store == Route(uri)
           k == KeyFrom(store, uri) IN
       /\ k # Nothing /\ store # "ipfs"
       /\ path' = IF store = "file" THEN [path EXCEPT ![k] = 0] ELSE path
       /\ tmp' = IF store = "file" THEN [tmp EXCEPT ![k] = 0] ELSE tmp
       /\ objects' = objects \ {[store |-> store, host |-> Host(store), key |-> k]}
       /\ removed' = removed \cup {uri}
    /\ UNCHANGED <<boot, default, whole, rows, proc, overlapped>>

\* Of an IPFS blob only the pin is dropped.
Delete(uri) ==
    /\ LET store == Route(uri)
           k == KeyFrom(store, uri) IN
       /\ k # Nothing /\ store # "ipfs"
       /\ path' = IF store = "file" THEN [path EXCEPT ![k] = 0] ELSE path
       /\ objects' = objects \ {[store |-> store, host |-> Host(store), key |-> k]}
       /\ removed' = removed \cup {uri}
    /\ UNCHANGED <<boot, default, whole, tmp, rows, proc, overlapped>>

Return(p) ==
    /\ proc[p].pc \in {"read", "failed"}
    /\ proc' = [proc EXCEPT ![p] = Idle]
    /\ UNCHANGED <<boot, default, whole, tmp, path, objects, rows, overlapped, removed>>

Crash(p) ==
    /\ proc[p].pc \in Writing \cup {"row"}
    /\ proc' = [proc EXCEPT ![p] = Idle]
    /\ UNCHANGED <<boot, default, whole, tmp, path, objects, rows, overlapped, removed>>

\* The service comes back, perhaps with another default backend.
Restart(d) ==
    /\ boot < MaxBoots
    /\ boot' = boot + 1 /\ default' = d
    /\ objects' = {o \in objects : o.store # "mem"}
    /\ proc' = [p \in Procs |-> Idle]
    /\ UNCHANGED <<whole, tmp, path, rows, overlapped, removed>>

-----------------------------------------------------------------------------
Next ==
    \/ \E p \in Procs :
        \/ \E k \in Keys : PutObject(p, k) \/ OpenTmp(p, k)
        \/ FillTmp(p) \/ Rename(p) \/ ReadToEnd(p) \/ Return(p) \/ Crash(p)
        \/ Cardinality(rows) < MaxRows /\ PutArtifact(p)
        \/ \E uri \in rows : Get(p, uri)
    \/ \E uri \in rows : Delete(uri)
    \/ \E d \in Defaults : Restart(d)

Spec == Init /\ [][Next]_vars

-----------------------------------------------------------------------------
TypeOK ==
    /\ boot \in 0..MaxBoots /\ default \in Defaults
    /\ \A k \in Keys : tmp[k] \in 0..Len(whole) /\ path[k] \in 0..Len(whole)
    /\ Cardinality(rows) <= MaxRows /\ overlapped \subseteq Keys

(* get never returns part of a body, whatever puts, deletes and crashes run
   beside it, unless two puts of the same bytes overlapped and emptied the
   one .tmp file under each other.                                         *)
ReadIsWhole ==
    \A p \in Procs : proc[p].got = "part" => proc[p].uri.key \in overlapped

(* put fails with nothing to rename only where two puts overlapped.        *)
PutFailsOnlyByOverlap ==
    \A p \in Procs : proc[p].pc = "failed" => proc[p].key \in overlapped

(* The uri of an artifact row goes on finding its blob, also when a restart
   changed the default backend: as long as its scheme is registered or its
   backend still the default, no delete took the shared blob, and it was not
   in the memory of a process that is gone.                                *)
RowsReadBack ==
    \A uri \in rows :
        \/ uri \in removed \/ (uri.scheme = "mem" /\ uri.host # boot)
        \/ uri.scheme \notin Routed \cup {default}
        \/ IF uri.scheme = "file"
           THEN Route(uri) = "file" /\ path[uri.key] # 0
                /\ (whole[path[uri.key]] \/ uri.key \in overlapped)
           ELSE Holds(Route(uri), uri)
=============================================================================
