---------------------------------- MODULE GeoIp ---------------------------------
(* The country database of a workspace (geoip.py): requests that fetch it, each    *)
(* in a thread, and requests that look addresses up in the one open reader.  A     *)
(* file is a number: what a name stands for, what a writer or the reader has open. *)
EXTENDS Naturals

CONSTANTS
    Downloads, Lookups,  \* threads that fetch the database, that look an address up
    MaxFiles, MaxOps

VARIABLES
    part, target,  \* the files the two names stand for, or NoFile
    sound,         \* the files that are a complete database
    owner,         \* [files -> the download that truncated each last]
    files,         \* how many files there have been
    fetch,         \* [Downloads -> where each is, the file it has open, its month]
    reader,        \* the file the open reader reads, or NoFile
    knows,         \* _reader_path is set
    cache,         \* what the address is cached as: a file's answer, Unlisted, NoFile
    asks,          \* [Lookups -> where each is and the reader it got]
    ops

gvars == <<part, target, sound, owner, files, fetch, reader, knows, cache, asks, ops>>

NoFile == 0
Unlisted == MaxFiles + 1
Rests == [pc |-> "idle", file |-> NoFile, month |-> 1]
Waits == [pc |-> "idle", file |-> NoFile]

\* A workspace with a database, a workspace without one.
GInit ==
    /\ target \in {NoFile, 1} /\ files = target /\ sound = {target} \ {NoFile}
    /\ part = NoFile /\ owner = [f \in 1 .. MaxFiles |-> NoFile]
    /\ fetch = [d \in Downloads |-> Rests] /\ asks = [l \in Lookups |-> Waits]
    /\ reader = NoFile /\ knows = FALSE /\ cache = NoFile /\ ops = 0

Op == ops < MaxOps /\ ops' = ops + 1

IsDatabase(f) == f \in sound

\* What is left is removed and the month before is tried, and then the error shown.
Fails(d) ==
    /\ part' = NoFile
    /\ fetch' = [fetch EXCEPT ![d] = IF @.month = 1 THEN [Rests EXCEPT !.pc = "open", !.month = 2]
                                                     ELSE Rests]

----------------------------------------------------------------------------
(* Fetching the database                                                   *)

Click(d) ==
    /\ fetch[d].pc = "idle" /\ Op
    /\ fetch' = [fetch EXCEPT ![d].pc = "open"]
    /\ UNCHANGED <<part, target, sound, owner, files, reader, knows, cache, asks>>

\* A month that is not there yet, and no connection.
NotFound(d) ==
    /\ fetch[d].pc = "open" /\ Fails(d)
    /\ UNCHANGED <<target, sound, owner, files, reader, knows, cache, asks, ops>>

\* The file of that name is truncated where it lies, or made.
Open(d) ==
    /\ fetch[d].pc = "open" /\ (part = NoFile => files < MaxFiles)
    /\ LET f == IF part = NoFile THEN files + 1 ELSE part IN
       /\ part' = f /\ sound' = sound \ {f}
       /\ files' = IF part = NoFile THEN f ELSE files
       /\ owner' = [owner EXCEPT ![f] = d]
       /\ fetch' = [fetch EXCEPT ![d].pc = "write", ![d].file = f]
    /\ UNCHANGED <<target, reader, knows, cache, asks, ops>>

\* Complete once the one that truncated it last is through, unless what came was not a
\* database.
Write(d) ==
    /\ fetch[d].pc = "write"
    /\ sound' \in {sound, sound \cup {f \in {fetch[d].file} : owner[f] = d}}
    /\ fetch' = [fetch EXCEPT ![d].pc = "probe"]
    /\ UNCHANGED <<part, target, owner, files, reader, knows, cache, asks, ops>>

\* A connection that breaks; what ends too early leaves the file behind.
Breaks(d) ==
    /\ fetch[d].pc = "write"
    /\ \/ Fails(d)
       \/ part' = part /\ fetch' = [fetch EXCEPT ![d] = Rests]
    /\ UNCHANGED <<target, sound, owner, files, reader, knows, cache, asks, ops>>

\* What is no database raises an error of its own that leaves the file behind.
Probe(d) ==
    /\ fetch[d].pc = "probe"
    /\ IF part = NoFile THEN Fails(d)
       ELSE /\ fetch' = [fetch EXCEPT ![d] = IF IsDatabase(part) THEN [@ EXCEPT !.pc = "close"] ELSE Rests]
            /\ part' = part
    /\ UNCHANGED <<target, sound, owner, files, reader, knows, cache, asks, ops>>

Close(d) ==
    /\ fetch[d].pc = "close"
    /\ reader' = NoFile /\ knows' = FALSE /\ cache' = NoFile
    /\ fetch' = [fetch EXCEPT ![d].pc = "adopt"]
    /\ UNCHANGED <<part, target, sound, owner, files, asks, ops>>

Adopt(d) ==
    /\ fetch[d].pc = "adopt"
    /\ IF part = NoFile THEN Fails(d) /\ target' = target
       ELSE /\ target' = part /\ part' = NoFile
            /\ fetch' = [fetch EXCEPT ![d] = Rests]
    /\ UNCHANGED <<sound, owner, files, reader, knows, cache, asks, ops>>

----------------------------------------------------------------------------
(* Looking an address up                                                   *)

Ask(l) ==
    /\ asks[l].pc = "idle" /\ cache = NoFile /\ Op
    /\ asks' = [asks EXCEPT ![l].pc = "reader"]
    /\ UNCHANGED <<part, target, sound, owner, files, fetch, reader, knows, cache>>

\* Opened when the path is not the one known, and never because the file is another.
GetReader(l) ==
    /\ asks[l].pc = "reader"
    /\ LET opens == ~knows /\ target # NoFile
           r == IF opens THEN IF IsDatabase(target) THEN target ELSE NoFile ELSE reader
       IN  /\ reader' = r /\ knows' = IF opens THEN r # NoFile ELSE knows
           /\ cache' = IF opens THEN NoFile ELSE cache
           /\ asks' = [asks EXCEPT ![l] = [pc |-> "answer", file |-> r]]
    /\ UNCHANGED <<part, target, sound, owner, files, fetch, ops>>

\* A reader closed meanwhile knows no country; without one the miss is kept.
Answer(l) ==
    /\ asks[l].pc = "answer"
    /\ cache' = IF asks[l].file \in {NoFile, reader} THEN asks[l].file ELSE Unlisted
    /\ asks' = [asks EXCEPT ![l] = Waits]
    /\ UNCHANGED <<part, target, sound, owner, files, fetch, reader, knows, ops>>

GNext ==
    \/ \E d \in Downloads : \/ Click(d) \/ NotFound(d) \/ Open(d) \/ Write(d)
                            \/ Breaks(d) \/ Probe(d) \/ Close(d) \/ Adopt(d)
    \/ \E l \in Lookups : Ask(l) \/ GetReader(l) \/ Answer(l)

GSpec == GInit /\ [][GNext]_gvars

----------------------------------------------------------------------------
(* Properties                                                              *)

\* What server/integrations/geoip.py:153-154 says of adopting a fetched file: half a
\* file never replaces a database that worked, nor is one put in its place.
HalfAFileReplacesNothing == target # NoFile => target \in sound
=============================================================================
