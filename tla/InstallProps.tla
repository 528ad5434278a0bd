---------------------------- MODULE InstallProps ----------------------------
(***************************************************************************)
(* What install(1) promises of the target name, of the backup and of its   *)
(* temporary files, at every moment and after every failure.               *)
(***************************************************************************)
EXTENDS Install

Sandboxed == \E p \in Runs : Has(p, "sandbox")
Alone     == Cardinality(Runs) = 1
Done(p)   == pc[p] = "done"
Failed(p) == pc[p] = "failed"
(* The calls after the new file has its name. *)
Late == {"reopento", "fstat", "chown", "chmod", "chflags"}

(* What a reader finds under the target's name, be it a link.  An empty
   directory, which gives way to a link in two steps, is nothing to it; the
   sandbox, where the target is filled in place, is left out.               *)
Nothing == <<"nothing">>
Shown ==
  IF Sandboxed \/ dir["to"] \in {None, Dir} THEN Nothing
  ELSE file[Leads].data
Offer(p) ==
  IF req[p].link = "none" THEN Want(p) ELSE SrcAttr.data
Stage(p) ==
  IF Sandboxed THEN "begun"
  ELSE IF pc[p] \in Late \cup {"lunlink", "done"} THEN "put"
  ELSE IF Failed(p) /\ l[p].why \in Late THEN "over"
  ELSE "begun"

(* A failure before the rename leaves the target as it was, and when no
   rename was tried its immutable bits too (BackupFails puts them back);
   when the target was there to be examined.                                *)
FailureKeeps ==
  [][Alone /\ ~ Sandboxed =>
       \A p \in Runs :
         pc'[p] = "failed" /\ pc[p] \notin Late \cup {"main", "done", "failed"}
           => /\ dir'["to"] = was \/ was = Dir
              /\ was = Old /\ req[p].link = "none"
                   /\ pc[p] \notin {"main", "start", "rename"}
                   => file'[Old].imm = l[p].sb.imm]_vars

(* At every moment, for any number of installs, and after a crash or failure
   anywhere, whoever opens the target finds the old file or all of a new one:
   Replace is what install() implements outside the sandbox.  So a target
   that -C keeps must be what would have been put there, and one that was
   there is never absent before its successor's attributes have failed; and
   an install that fails before it leaves what was there as it was.         *)
Atomic == INSTANCE Replace WITH
  Nothing <- Nothing, name <- Shown, new <- [p \in Runs |-> Offer(p)],
  st <- [p \in Runs |-> Stage(p)]
Replaces == Atomic!Spec /\ FailureKeeps

(* No exit leaves a temporary file behind but a failure to open the target
   or the stripped file for reading (install.1 BUGS: files "may be left").  *)
NoTempLeft ==
  \A p \in Runs :
    pc[p] \in {"done", "failed"} /\ dir[Tmp(p)] # None =>
      Failed(p) /\ l[p].why \in {"reopen", "compare2"}

(* With -b the old file keeps a name at every moment: the target's, or the
   backup's, also when a later step fails.  (A target that -C keeps needs no
   backup; it too is removed when its attributes cannot be set.)            *)
BackupKeeps ==
  Alone /\ ~ Sandboxed =>
    \A p \in Runs : Has(p, "b") /\ req[p].link = "none" /\ was = Old /\ ~ l[p].match =>
      Old \in {dir["to"], dir["bak"]}

(* A successful install leaves all the data, stripped when -s asks for it,
   under the target's name, with the owner asked for; a replaced file also
   has the mode; a link leads to the source.                                *)
InstalledAlone ==
  Alone /\ ~ Sandboxed =>
    \A p \in Runs : Done(p) =>
      IF req[p].link # "none" THEN dir["to"] \in {Src, <<p, "sym">>}
      ELSE /\ dir["to"] # None
           /\ file[dir["to"]].data = Want(p)
           /\ Has(p, "chown") /\ ~ Has(p, "U") => file[dir["to"]].own = "want"
           /\ dir["to"] # Old /\ ~ Has(p, "U") =>
                file[dir["to"]].mode = req[p].mode

(* -C and -p keep the target file itself (and with it its other links) only
   if its data is what would have been installed.                           *)
ComparedRight ==
  Alone => \A p \in Runs :
    l[p].match /\ ~ Failed(p) => file[dir["to"]].data = Want(p)

(* In the sandbox too a success means all the data, as far as -s goes by.   *)
SandboxDone ==
  Alone /\ Sandboxed =>
    \A p \in Runs : Done(p) /\ req[p].link = "none" =>
      dir["to"] # None /\ file[dir["to"]].data \in {Plain(p), Want(p)}

(* What a success says of the target, in and out of the sandbox, and whether
   it was replaced or found to be right (install, compare).                 *)
Installed == InstalledAlone /\ ComparedRight /\ SandboxDone

(* What every exit leaves: no litter, the backup, the file asked for. *)
ExitsRight == NoTempLeft /\ BackupKeeps /\ Installed

=============================================================================
