----------------------------- MODULE FileStore ------------------------------
(***************************************************************************)
(* What the file commands of the shell promise: a map from names to files  *)
(* (or directories, which may carry data as well: nothing in fat32.c looks *)
(* at the attribute of the entry it writes to), changed as a whole by a    *)
(* request that succeeds and left alone by one that is refused.            *)
(***************************************************************************)
EXTENDS Sequences

CONSTANTS
  Names,
  Requests     \* [kind, name, text, to]; "to" is used by cp and mv

VARIABLES
  files,       \* what each name reads as
  req,         \* the request being served, or <<>>
  ok           \* was the last request performed?

vars == <<files, req, ok>>

Absent == [there |-> FALSE, dir |-> FALSE, text |-> <<>>]
File(t) == [there |-> TRUE, dir |-> FALSE, text |-> t]
Directory == [there |-> TRUE, dir |-> TRUE, text |-> <<>>]

Rewritten(n, t) == [files[n] EXCEPT !.there = TRUE, !.text = t]

\* What the names read as once request r has been performed.
After(r) ==
  CASE r.kind = "create" -> [files EXCEPT ![r.name] = File(r.text)]
    [] r.kind = "write"  -> [files EXCEPT ![r.name] = Rewritten(r.name, r.text)]
    [] r.kind = "append" ->
         [files EXCEPT ![r.name] = Rewritten(r.name, files[r.name].text \o r.text)]
    [] r.kind = "mkdir"  -> [files EXCEPT ![r.name] = Directory]
    [] r.kind = "delete" -> [files EXCEPT ![r.name] = Absent]
    [] r.kind = "cp"     -> [files EXCEPT ![r.to] = files[r.name]]
    [] r.kind = "mv"     -> [files EXCEPT ![r.name] = Absent, ![r.to] = files[r.name]]

Init ==
  /\ files = [n \in Names |-> Absent]
  /\ req = <<>>
  /\ ok = TRUE

Call ==
  /\ req = <<>> /\ req' \in Requests
  /\ UNCHANGED <<files, ok>>

Perform ==
  /\ req # <<>>
  /\ req.kind \in {"delete", "cp", "mv"} => files[req.name].there
  /\ files' = After(req)
  /\ req' = <<>> /\ ok' = TRUE

Refuse ==
  /\ req' = <<>> /\ ok' = FALSE
  /\ files' = files

Next == Call \/ Perform \/ Refuse

Spec == Init /\ [][Next]_vars
=============================================================================
