----------------------------- MODULE FileDelivery -----------------------------
(***************************************************************************)
(* What a file transfer of bats_iperf promises: the server is handed the   *)
(* blocks of each file one at a time from its beginning, each block once.  *)
(* It stores them under the file's base name; what is stored there is the  *)
(* beginning of the file, as long as no error harms it and no other file   *)
(* of that name interferes.  A file is counted once, with its last block,  *)
(* and only an error can keep it from being counted.  Streams, threads,    *)
(* connections and the queue of files are left out, and so is why a        *)
(* transfer stops before its end.                                          *)
(***************************************************************************)
EXTENDS Integers

CONSTANTS
    NumFiles,   \* how many files the request announces
    MaxBlocks   \* the longest file, in blocks

VARIABLES
    size,      \* blocks of each file, Unreadable if it cannot be opened
    name,      \* base name of each file
    granted,   \* the server has accepted the request
    togo,      \* num_files: the files the server still waits for
    got,       \* blocks of each file the server was handed
    copy,      \* what is stored under a name: the first k blocks of a file, or Spoilt
    complete,  \* the files that were counted
    harmed     \* the files whose writing met an error

vars == <<size, name, granted, togo, got, copy, complete, harmed>>

Files == 1..NumFiles
Unreadable == -1
Spoilt == <<0, 0>>

Init ==
    /\ size \in [Files -> -1..MaxBlocks] /\ name \in [Files -> Files]
    /\ granted = FALSE /\ togo = 0
    /\ got = [f \in Files |-> 0] /\ copy = [n \in Files |-> Spoilt]
    /\ complete = {} /\ harmed = {}

Grant ==
    /\ ~granted
    /\ granted' = TRUE /\ togo' = NumFiles
    /\ UNCHANGED <<size, name, got, copy, complete, harmed>>

(* A file that has vanished when its turn comes is not sent at all.        *)
PassOver(f) ==
    /\ got[f] = 0 /\ f \notin complete
    /\ size' = [size EXCEPT ![f] = Unreadable]
    /\ UNCHANGED <<name, granted, togo, got, copy, complete, harmed>>

(* The next block of f is stored, or an error harms f: then what is stored *)
(* under its name is anybody's guess, and stays so for the blocks to come. *)
Next1(f) == got[f] + 1
Appended(f) ==
    IF Next1(f) = 1 \/ copy[name[f]] = <<f, got[f]>> THEN <<f, Next1(f)>> ELSE Spoilt

Receive(f) ==
    /\ granted /\ f \notin complete /\ got[f] < size[f]
    /\ got' = [got EXCEPT ![f] = @ + 1]
    /\ \/ f \notin harmed /\ UNCHANGED harmed /\ copy' = [copy EXCEPT ![name[f]] = Appended(f)]
       \/ harmed' = harmed \cup {f} /\ \A n \in Files : n # name[f] => copy'[n] = copy[n]
    /\ UNCHANGED <<size, name, granted>>

(* A block that is not the last one; ...                                   *)
Extend(f) ==
    /\ Receive(f) /\ Next1(f) < size[f]
    /\ UNCHANGED <<togo, complete>>

(* ... the last one, with which the file is counted, ...                   *)
Close(f) ==
    /\ Receive(f) /\ Next1(f) = size[f]
    /\ complete' = complete \cup {f} /\ togo' = togo - 1

(* ... unless it has been harmed.                                          *)
Miss(f) ==
    /\ Receive(f) /\ Next1(f) = size[f] /\ f \in harmed'
    /\ UNCHANGED <<togo, complete>>

Next == Grant \/ \E f \in Files : PassOver(f) \/ Extend(f) \/ Close(f) \/ Miss(f)

Spec == Init /\ [][Next]_vars
=============================================================================
