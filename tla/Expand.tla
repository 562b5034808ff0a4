-------------------------------- MODULE Expand --------------------------------
(***************************************************************************)
(* verify_release.py --verify-expanded: a thread writes the parts into zstd,  *)
(* the main thread hashes what comes out, and two pipes of bounded size lie   *)
(* between the three. zstd may find the stream corrupt, a part may not be     *)
(* readable, zstd may be killed from outside.                                 *)
(*                                                                         *)
(* The stream is counted in chunks; each expands to Ratio chunks.             *)
(***************************************************************************)
EXTENDS Naturals

CONSTANTS
  Chunks,    \* chunks of the parts
  Ratio,     \* chunks that one expands to
  Capacity,  \* chunks that fit in a pipe
  MaxFaults  \* bound: kills of zstd from outside

ExpandAssumption ==
  {Chunks, Ratio, Capacity} \subseteq Nat \ {0} /\ MaxFaults \in Nat

VARIABLES
  content,  \* what the parts expand to: "image", "other"
  corrupt,  \* a chunk that zstd cannot expand, 0 if none
  missing,  \* a chunk that cannot be read, 0 if none
  writer, sent, writer_error,
  stdin, closed, stdout,   \* the pipes, and whether the writer closed its end
  zstd, taken, pending,    \* the process, chunks it read, output it holds
  main, hashed, verdict,
  faults

release == <<content, corrupt, missing>>
vars == <<release, writer, sent, writer_error, stdin, closed, stdout,
          zstd, taken, pending, main, hashed, verdict, faults>>

Init ==
  /\ content \in {"image", "other"} /\ corrupt \in 0 .. Chunks /\ missing \in 0 .. Chunks
  /\ writer = "write" /\ sent = 0 /\ writer_error = FALSE
  /\ stdin = 0 /\ closed = FALSE /\ stdout = 0
  /\ zstd = "running" /\ taken = 0 /\ pending = 0
  /\ main = "read" /\ hashed = 0 /\ verdict = "none" /\ faults = 0

-----------------------------------------------------------------------------
(* write_parts: a chunk goes when there is room; a part that cannot be read, or *)
(* a pipe that nobody reads any more, is an error.                           *)
WriteParts ==
  /\ writer = "write" /\ sent < Chunks
  /\ \/ /\ sent + 1 # missing /\ zstd = "running" /\ stdin < Capacity
        /\ stdin' = stdin + 1 /\ sent' = sent + 1 /\ UNCHANGED <<writer, writer_error>>
     \/ /\ sent + 1 = missing \/ zstd # "running"
        /\ writer_error' = TRUE /\ writer' = "kill" /\ UNCHANGED <<stdin, sent>>
  /\ UNCHANGED <<release, closed, stdout, zstd, taken, pending, main, hashed, verdict, faults>>

(* Mutant: zstd is killed however the writer ends. *)
CloseAndKill ==
  /\ writer = "write" /\ sent = Chunks /\ closed' = TRUE /\ writer' = "kill"
  /\ UNCHANGED <<release, sent, writer_error, stdin, stdout, zstd, taken, pending,
                 main, hashed, verdict, faults>>

(* process.stdin.close(), which still has bytes to write, perhaps to nobody.   *)
CloseStdin ==
  /\ writer = "write" /\ sent = Chunks /\ closed' = TRUE
  /\ \/ writer' = "done" /\ UNCHANGED writer_error
     \/ zstd # "running" /\ writer' = "kill" /\ writer_error' = TRUE
  /\ UNCHANGED <<release, sent, stdin, stdout, zstd, taken, pending,
                 main, hashed, verdict, faults>>

(* process.kill(), which does nothing to a process that has ended. *)
KillZstd ==
  /\ writer = "kill" /\ writer' = "done"
  /\ zstd' = IF zstd = "running" THEN "killed" ELSE zstd
  /\ UNCHANGED <<release, sent, writer_error, stdin, closed, stdout, taken, pending,
                 main, hashed, verdict, faults>>

-----------------------------------------------------------------------------
(* zstd expands a chunk when it has put out the one before. *)
Take ==
  /\ zstd = "running" /\ pending = 0 /\ stdin > 0
  /\ stdin' = stdin - 1
  /\ IF taken + 1 = corrupt
     THEN zstd' = "failed" /\ UNCHANGED <<taken, pending>>
     ELSE taken' = taken + 1 /\ pending' = Ratio /\ UNCHANGED zstd
  /\ UNCHANGED <<release, writer, sent, writer_error, closed, stdout, main, hashed, verdict, faults>>

Put ==
  /\ zstd = "running" /\ pending > 0 /\ stdout < Capacity
  /\ pending' = pending - 1 /\ stdout' = stdout + 1
  /\ UNCHANGED <<release, writer, sent, writer_error, stdin, closed, zstd, taken,
                 main, hashed, verdict, faults>>

(* It ends when its input has. *)
Finish ==
  /\ zstd = "running" /\ pending = 0 /\ stdin = 0 /\ closed /\ zstd' = "ended"
  /\ UNCHANGED <<release, writer, sent, writer_error, stdin, closed, stdout, taken, pending,
                 main, hashed, verdict, faults>>

KilledOutside ==
  /\ zstd = "running" /\ faults < MaxFaults
  /\ faults' = faults + 1 /\ zstd' = "killed"
  /\ UNCHANGED <<release, writer, sent, writer_error, stdin, closed, stdout, taken, pending,
                 main, hashed, verdict>>

-----------------------------------------------------------------------------
(* Mutant: the writer is waited for before anything is read. *)
ReadAfterJoin ==
  /\ main = "read" /\ (writer = "done" \/ hashed > 0)
  /\ \/ stdout > 0 /\ stdout' = stdout - 1 /\ hashed' = hashed + 1 /\ UNCHANGED main
     \/ stdout = 0 /\ zstd # "running" /\ main' = "join" /\ UNCHANGED <<stdout, hashed>>
  /\ UNCHANGED <<release, writer, sent, writer_error, stdin, closed, zstd, taken, pending, verdict, faults>>

(* The loop over what zstd puts out, until its end of the pipe is closed.      *)
Read ==
  /\ main = "read"
  /\ \/ stdout > 0 /\ stdout' = stdout - 1 /\ hashed' = hashed + 1 /\ UNCHANGED main
     \/ stdout = 0 /\ zstd # "running" /\ main' = "join" /\ UNCHANGED <<stdout, hashed>>
  /\ UNCHANGED <<release, writer, sent, writer_error, stdin, closed, zstd, taken, pending, verdict, faults>>

(* writer_error, the exit status, the bytes and the digest. *)
SameImage ==
  ~ writer_error /\ zstd = "ended" /\ hashed = Ratio * Chunks /\ content = "image"

(* writer.join(), process.wait(), and the four checks. *)
Judge ==
  /\ main = "join" /\ writer = "done" /\ zstd # "running"
  /\ main' = "done" /\ verdict' = IF SameImage THEN "accepted" ELSE "refused"
  /\ UNCHANGED <<release, writer, sent, writer_error, stdin, closed, stdout, zstd, taken, pending,
                 hashed, faults>>

Writer == WriteParts \/ CloseStdin \/ KillZstd
Zstd == Take \/ Put \/ Finish
Main == Read \/ Judge

Next == Writer \/ Zstd \/ KilledOutside \/ Main

(* The three run on; nobody has to kill zstd. *)
Spec == Init /\ [][Next]_vars /\ WF_vars(Writer) /\ WF_vars(Zstd) /\ WF_vars(Main)

-----------------------------------------------------------------------------
(* The pipes hold what they can, and nothing comes out that did not go in.     *)
TypeOK ==
  /\ {stdin, stdout} \subseteq 0 .. Capacity /\ pending \in 0 .. Ratio
  /\ taken + stdin <= sent /\ sent <= Chunks
  /\ hashed + stdout + pending = Ratio * taken
  /\ verdict # "none" <=> main = "done"

(* Types; what is accepted is the whole image, every part of it read; and a     *)
(* good release is never refused for the order in which the three run.         *)
VerdictIsTrue ==
  /\ TypeOK
  /\ verdict = "accepted" =>
       content = "image" /\ corrupt = 0 /\ missing = 0 /\ sent = Chunks
  /\ verdict = "refused" =>
       content # "image" \/ corrupt # 0 \/ missing # 0 \/ faults # 0

(* The verification ends, whatever the release holds and whoever dies.         *)
VerificationEnds == <>(main = "done")
=============================================================================
