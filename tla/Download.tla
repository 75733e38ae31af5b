------------------------------ MODULE Download ------------------------------
(***************************************************************************)
(* SafeDownloadManager of c/model_acquisition.py: one background thread       *)
(* fetches a model file, or the shards of a bundle one after the other, into  *)
(* <name>.part, checks it and renames it into place.  Clients pause, resume   *)
(* and cancel it, the server answers as it likes, and the gateway may be      *)
(* killed at any moment: only the files survive.                             *)
(*                                                                         *)
(* A file is a sequence of chunks, each the version of the remote file it was *)
(* read from; version 1 is the one a checksum was published for.  Requests to *)
(* start come one at a time: two at once would both pass the status test      *)
(* (c/model_acquisition.py:380), which this module leaves out.                *)
(***************************************************************************)
EXTENDS Naturals, Sequences, Functions

CONSTANTS Single, Bundle,       \* a file; the sequence of a bundle's files
          Requested,            \* what clients ask for under the name of Single
          ShardRequests,        \* what a bundle asks for, by file
          Size,                 \* chunks of every file
          Versions, Attempts,   \* bounds: changes of the remote; range(4)
          Absent, NoMarker

Files == {Single} \union Range(Bundle)

ASSUME DownloadAssumption ==
  /\ Single \notin Range(Bundle) /\ Bundle \in Seq(Range(Bundle))
  /\ Size \in Nat \ {0} /\ Versions \in Nat \ {0} /\ Attempts \in Nat \ {0}

VARIABLES version,              \* what the remote serves now
          part, target,         \* the files on disk, Absent or their chunks
          marker,               \* completed_files of .qwanto-bundle.json
          status, cancelled, paused,    \* _status["status"], the two events
          w                     \* the thread

disk == <<part, target, marker>>
flags == <<status, cancelled, paused>>
downloadVars == <<version, disk, flags, w>>

\* The providers: a local file's size is always known; a checksum is the client's.
Manifest(request) ==
  [local  |-> request.provider = "local_file",
   hashed |-> request.sha256,
   sized  |-> request.expected_size \/ request.provider = "local_file"]

\* A gated model needs its licence confirmed, a direct link its host approved.
Accepted(request) ==
  /\ request.provider = "huggingface" /\ request.gated => request.license_confirmed
  /\ request.provider = "direct_https" => request.allowed_hosts

Active == status \in {"downloading", "paused"}
Stopped == [pc |-> "none", job |-> "file", todo |-> <<>>, done |-> {}, over |-> FALSE,
            single |-> Manifest([provider |-> "", sha256 |-> FALSE, expected_size |-> FALSE]),
            attempt |-> 0, of |-> 1, pos |-> 0, gone |-> {}]
File == Head(w.todo)
ManifestOf(f) == IF f = Single THEN w.single ELSE Manifest(ShardRequests[f])
Local == ManifestOf(File).local
\* Where the file goes exists: a bundle's directory holds its marker, always.
Directory == File = Single \/ marker # NoMarker
Stored(f) == IF part[f] = Absent THEN 0 ELSE Len(part[f])
Original == [i \in 1..Size |-> 1]

DInit ==
  /\ version = 1
  /\ part = [f \in Files |-> Absent] /\ target = [f \in Files |-> Absent]
  /\ marker = NoMarker
  /\ status = "idle" /\ cancelled = FALSE /\ paused = FALSE /\ w = Stopped
-----------------------------------------------------------------------------
(* The clients.                                                             *)

Begin(job, todo, done, over, manifest) ==
  /\ ~Active
  /\ status' = "downloading" /\ cancelled' = FALSE /\ paused' = FALSE
  /\ w' = [Stopped EXCEPT !.pc = IF job = "file" THEN "open" ELSE "next",
                          !.job = job, !.todo = todo, !.done = done, !.over = over, !.single = manifest]

StartFile(request, over) ==
  /\ Accepted(request) /\ (target[Single] = Absent \/ over)
  /\ Begin("file", <<Single>>, {}, over, Manifest(request))
  /\ UNCHANGED <<version, disk>>

StartBundle(over) ==
  LET completed == IF marker = NoMarker THEN {} ELSE marker IN
  /\ Begin("bundle", Bundle, completed, over, Stopped.single)
  /\ marker' = completed
  /\ UNCHANGED <<version, part, target>>

Pause == /\ status = "downloading" /\ status' = "paused" /\ paused' = TRUE
         /\ UNCHANGED <<version, disk, cancelled, w>>
Resume == /\ status = "paused" /\ status' = "downloading" /\ paused' = FALSE
          /\ UNCHANGED <<version, disk, cancelled, w>>
Cancel == /\ Active /\ cancelled' = TRUE /\ paused' = FALSE
          /\ UNCHANGED <<version, disk, status, w>>
-----------------------------------------------------------------------------
(* The thread.                                                              *)

Ends(how) == status' = how /\ w' = Stopped /\ UNCHANGED <<version, cancelled, paused>>

\* The except clauses of _run and _run_bundle: a cancelled download drops its
\* partial, one with a wrong checksum does when it is a single file.
GivesUp(wrongHash) ==
  /\ Ends("error")
  /\ part' = IF cancelled \/ (wrongHash /\ w.job = "file")
             THEN [part EXCEPT ![File] = Absent] ELSE part
  /\ UNCHANGED <<target, marker>>

Goto(pc) == w' = [w EXCEPT !.pc = pc]
Going == UNCHANGED <<version, target, marker, flags>>

Finish == /\ w.pc = "next" /\ w.todo = <<>> /\ Ends("completed") /\ UNCHANGED disk

SkipUnseen ==           \* mutant: the marker is believed, the file not looked for
  /\ w.pc = "next" /\ w.todo # <<>> /\ File \in w.done
  /\ w' = [w EXCEPT !.todo = Tail(w.todo)] /\ UNCHANGED part /\ Going
SkipOver ==             \* mutant: overwriting fetches what is complete again
  /\ w.pc = "next" /\ w.todo # <<>> /\ File \in w.done /\ target[File] # Absent
  /\ w' = IF w.over THEN [w EXCEPT !.pc = "open", !.attempt = 0]
                    ELSE [w EXCEPT !.todo = Tail(w.todo)]
  /\ UNCHANGED part /\ Going
Skip ==
  /\ w.pc = "next" /\ w.todo # <<>> /\ File \in w.done /\ target[File] # Absent
  /\ w' = [w EXCEPT !.todo = Tail(w.todo)] /\ UNCHANGED part /\ Going

\* A shard that is there and not marked is refused; its partial is the one of
\* the shard before, if any, so that a cancel finds nothing to drop.
Shard ==
  /\ w.pc = "next" /\ w.todo # <<>> /\ ~(File \in w.done /\ target[File] # Absent)
  /\ IF target[File] # Absent /\ ~w.over
     THEN Ends("error") /\ UNCHANGED disk
     ELSE /\ w' = [w EXCEPT !.pc = "open", !.done = @ \ {File}, !.attempt = 0]
          /\ UNCHANGED part /\ Going

\* An attempt failed.  After the last one, or when cancelled, the download has.
Retry == IF w.attempt + 1 >= Attempts \/ cancelled
         THEN GivesUp(FALSE)
         ELSE /\ w' = [w EXCEPT !.pc = "open", !.attempt = @ + 1]
              /\ UNCHANGED part /\ Going

Response(offset) ==
  w' = [w EXCEPT !.pc = "transfer", !.of = version, !.pos = offset]

\* What is stored is asked to be continued (206).  A server that sends the whole
\* file instead makes the thread start over, and one that knows the file to be no
\* longer answers 416: any exception is a failed attempt.
Open ==
  /\ w.pc = "open" /\ ~Local
  /\ IF cancelled THEN GivesUp(FALSE)
     ELSE \/ Stored(File) \in 1..Size - 1 /\ Response(Stored(File)) /\ UNCHANGED part /\ Going
          \/ Directory /\ Response(0) /\ part' = [part EXCEPT ![File] = <<>>] /\ Going
          \/ Retry

\* The whole file was sent, the partial dropped, the second request fails.
OpenDropped ==
  /\ w.pc = "open" /\ ~Local /\ ~cancelled /\ Stored(File) > 0
  /\ part' = [part EXCEPT ![File] = Absent]
  /\ IF w.attempt + 1 >= Attempts
     THEN Ends("error") /\ UNCHANGED <<target, marker>>
     ELSE w' = [w EXCEPT !.attempt = @ + 1] /\ Going

\* A local file is copied: nothing stops the copy but an error.
OpenLocal ==
  /\ w.pc = "open" /\ Local
  /\ \/ Response(0) /\ part' = [part EXCEPT ![File] = <<>>] /\ Going
     \/ GivesUp(FALSE)

Deaf == Local

\* A partial that was deleted while it is open takes no one's bytes any more.
WriteChunk(chunk) == part' = [part EXCEPT ![File] = IF @ = Absent THEN Absent ELSE Append(@, chunk)]
TransferDeaf ==         \* mutant: a paused thread does not hear a cancel
  /\ w.pc = "transfer" /\ ~paused
  /\ IF cancelled THEN GivesUp(FALSE)
     ELSE \/ /\ w.pos < Size /\ w' = [w EXCEPT !.pos = @ + 1]
             /\ WriteChunk(w.of) /\ Going
          \/ Goto("hash") /\ UNCHANGED part /\ Going
          \/ Retry
\* One chunk, the end of the response, which may come early and is not compared
\* with Content-Length, or an error.
Transfer ==
  /\ w.pc = "transfer" /\ (Deaf \/ cancelled \/ ~paused)
  /\ IF cancelled /\ ~Deaf THEN GivesUp(FALSE)
     ELSE \/ /\ w.pos < Size /\ w' = [w EXCEPT !.pos = @ + 1]
             /\ WriteChunk(w.of) /\ Going
          \/ (w.pos = Size \/ ~Deaf) /\ Goto("hash") /\ UNCHANGED part /\ Going
          \/ IF Deaf THEN GivesUp(FALSE) ELSE Retry

Mismatch == ManifestOf(File).hashed /\ part[File] # Original
Hash ==
  /\ w.pc = "hash"
  /\ IF part[File] = Absent THEN GivesUp(FALSE)
     ELSE IF Mismatch THEN GivesUp(TRUE)
     ELSE IF ManifestOf(File).sized /\ Stored(File) # Size THEN GivesUp(FALSE)
     ELSE Goto("publish") /\ UNCHANGED part /\ Going

\* os.replace.  A cancel that comes after the transfer is not looked at again.
Publish ==
  /\ w.pc = "publish"
  /\ IF part[File] = Absent \/ (target[File] # Absent /\ ~w.over) THEN GivesUp(FALSE)
     ELSE /\ target' = [target EXCEPT ![File] = part[File]]
          /\ part' = [part EXCEPT ![File] = Absent]
          /\ IF w.job = "file" THEN Ends("completed")
                               ELSE Goto("mark") /\ UNCHANGED <<version, flags>>
          /\ UNCHANGED marker

Mark ==
  /\ w.pc = "mark"
  /\ \/ /\ Directory /\ marker' = w.done \union {File}
        /\ w' = [w EXCEPT !.pc = "next", !.done = marker', !.todo = Tail(w.todo)]
        /\ UNCHANGED <<version, part, target, flags>>
     \/ GivesUp(FALSE)

Work == \/ Finish \/ Skip \/ Shard \/ Open \/ OpenDropped \/ OpenLocal
        \/ Transfer \/ Hash \/ Publish \/ Mark
-----------------------------------------------------------------------------
(* The world.                                                               *)

\* The gateway is killed and started again.
Restart ==
  /\ status # "idle"
  /\ status' = "idle" /\ cancelled' = FALSE /\ paused' = FALSE /\ w' = Stopped
  /\ UNCHANGED <<version, disk>>

Republish == /\ version < Versions /\ version' = version + 1
             /\ UNCHANGED <<disk, flags, w>>

\* A client deletes a file of the library, or the directory of the bundle, also
\* while it is downloaded (open files can be deleted, as on POSIX).
Notes(files) == w' = IF w.pc = "none" THEN w ELSE [w EXCEPT !.gone = @ \union files]
DeleteFile(f) ==
  /\ target[f] # Absent
  /\ target' = [target EXCEPT ![f] = Absent] /\ Notes({f})
  /\ UNCHANGED <<version, part, marker, flags>>
DeleteBundle ==
  /\ marker # NoMarker /\ marker' = NoMarker
  /\ target' = [f \in Files |-> IF f = Single THEN target[f] ELSE Absent]
  /\ part' = [f \in Files |-> IF f = Single THEN part[f] ELSE Absent]
  /\ Notes(Range(Bundle))
  /\ UNCHANGED <<version, flags>>

FileRequest == \E over \in BOOLEAN, request \in Requested : StartFile(request, over)
BundleRequest == DeleteBundle \/ \E over \in BOOLEAN : StartBundle(over)
DownloadNext == \/ Pause \/ Resume \/ Cancel
                \/ Work
                \/ Restart \/ Republish \/ \E f \in Files : DeleteFile(f)
-----------------------------------------------------------------------------
(* A download that reports itself completed has every file in place, with the *)
(* size and the checksum its manifest promises, whatever it was pieced        *)
(* together from: a partial of an earlier run, retries, a file that changed   *)
(* on the server meanwhile (c/model_acquisition.py:459-476, 620-696), but for *)
(* what a client deleted while it ran.                                        *)
CompletedIsWhole ==
  [][status' = "completed" /\ status # "completed" =>
       \A f \in (IF w.job = "file" THEN {Single} ELSE Range(Bundle)) \ w.gone :
         /\ target'[f] # Absent
         /\ ManifestOf(f).hashed => target'[f] = Original
         /\ ManifestOf(f).sized => Len(target'[f]) = Size]_downloadVars

(* "Completed shards are never replaced implicitly" (line 582): one that the  *)
(* marker names stays as it is until a client deletes it, through failures,   *)
(* restarts and new requests, overwriting ones included.                      *)
ShardsAreKept ==
  [][w.pc # "none" /\ marker # NoMarker =>
       \A f \in marker : Absent \in {target[f], target'[f]} \/ target'[f] = target[f]]_downloadVars

(* What is published is whole, and what was published stays.                 *)
DownloadsAreWhole == CompletedIsWhole /\ ShardsAreKept

(* A download ends, completed or not, unless it is paused, and a cancelled    *)
(* one ends although it is paused again: nothing waits for a thread that      *)
(* waits for nobody (the status refuses every other download until then).     *)
DownloadEnds ==
  /\ w.pc # "none" ~> w.pc = "none" \/ paused
  /\ cancelled ~> w.pc = "none"
=============================================================================
