------------------------------ MODULE Install -------------------------------
(***************************************************************************)
(* install(1): install(), makelink(), do_link(), do_symlink(), copy() and  *)
(* strip() of install/xinstall.c for one file put in the place of another. *)
(*                                                                         *)
(* Every process of Proc is one install of its own source to the same      *)
(* target name.  A step is one system call (or the child strip(1)), which  *)
(* may fail; so each state is also what a crash leaves behind and what a   *)
(* program opening the target at that moment finds.                        *)
(*                                                                         *)
(*   dir    what the names of the target directory lead to                 *)
(*   file   the contents and the attributes of the inodes                  *)
(*   req    the command line of each process                               *)
(*   l      its locals: target, match (files_match), fd (to_fd), sb (the   *)
(*          copy of to_sb), work (the name being filled: tempfile, or the  *)
(*          target itself in the sandbox), why (the call it failed at)     *)
(*   was    history: what the target name led to at the start              *)
(***************************************************************************)
EXTENDS Naturals, FiniteSets

CONSTANTS
  Proc,      \* the install processes
  Scenes     \* who runs with which command line, on what: see below

Fixed(i) == <<"fs", i>>
None   == Fixed("none")
Old    == Fixed("old")       \* the target at the start
OldBak == Fixed("bak")       \* a backup that was there before
Dir    == Fixed("dir")       \* an empty directory in the target's place
Src    == Fixed("src")       \* the source, for links
Tmp(p) == p                  \* the name mkstemp makes up for p
Flag == {"C", "s", "b", "U", "chown", "f", "null", "sandbox", "simm"}
RequestType == [src : {"x", "y"}, flags : SUBSET Flag, mode : {"suid", "plain"},
                link : {"none", "hard", "sym", "mixed"}]

Name   == {"to", "bak", "alias"} \cup {Tmp(p) : p \in Proc}
Inode  == {Old, OldBak, Dir, Src} \cup Proc \X {"new", "strip", "sym"}
Data   == {"o", "x", "y", "null"} \X {"plain", "stripped", "part", "empty"}
Attr   == [data : Data, mode : {"suid", "plain", "priv"}, own : {"me", "want"},
           imm : BOOLEAN]
Stat   == [mode : {"suid", "plain", "priv"}, own : {"me", "want"}, imm : BOOLEAN,
           nlink : Nat]
TargetType == [to : {None, Old, Dir, Src}, bak : {None, OldBak},
               alias : {None, Old}, attr : Attr]
(* mkstemp makes up names that are neither the target's nor its backup's. *)
ASSUME ProcAssumption ==
  IsFiniteSet(Proc) /\ \A p \in Proc : Tmp(p) \notin {"to", "bak", "alias"}
(* A scene: the command lines of the processes that run; the target, its
   backup, a further link of it and its attributes.                         *)
ASSUME InstallAssumption ==
  \A s \in Scenes :
    /\ DOMAIN s.req \subseteq Proc
    /\ s.req \in [DOMAIN s.req -> RequestType]
    /\ s.at \in TargetType /\ (s.at.to # Old => s.at.alias = None)

VARIABLES dir, file, req, l, pc, was
vars == <<dir, file, req, l, pc, was>>
fs   == <<dir, file>>
Runs == DOMAIN req

Has(p, f) == f \in req[p].flags
Plain(p)  == IF Has(p, "null") THEN <<"null", "plain">> ELSE <<req[p].src, "plain">>
Want(p)   == IF Has(p, "s") THEN <<req[p].src, "stripped">> ELSE Plain(p)

Pcs == {"main", "start", "compare", "temp", "excl", "strip", "copy", "copying",
        "strip2", "reopen", "compare2", "unlock", "unlinkbak", "linkbak", "rename",
        "reopento", "fstat", "chown", "chmod", "chflags", "link", "symlink", "rmdir",
        "lunlock", "lrename", "lunlink", "done", "failed"}

(* Every local and every name keeps its type. *)
TypeOK ==
  /\ dir \in [Name -> Inode \cup {None}]
  /\ file \in [Inode -> Attr]
  /\ req \in [Runs -> RequestType]
  /\ pc \in [Runs -> Pcs]
  /\ l \in [Runs -> [target : BOOLEAN, match : BOOLEAN, fd : Inode \cup {None},
                     sb : Stat, work : Name, why : Pcs]]
  /\ was \in Inode \cup {None}

New == [data |-> <<"null", "plain">>, mode |-> "priv", own |-> "me", imm |-> FALSE]
SrcAttr == [data |-> <<"x", "plain">>, mode |-> "plain", own |-> "me", imm |-> FALSE]
Init ==
  \E s \in Scenes : LET t == s.at IN
    /\ dir = [n \in Name |-> IF n = "to" THEN t.to ELSE IF n = "bak" THEN t.bak
                             ELSE IF n = "alias" THEN t.alias ELSE None]
    /\ file = [i \in Inode |-> IF i = Old THEN t.attr
                               ELSE IF i = Src THEN SrcAttr ELSE New]
    /\ req = s.req
    /\ l = [p \in Runs |-> [target |-> FALSE, match |-> FALSE, fd |-> None,
              sb |-> [mode |-> "priv", own |-> "me", imm |-> FALSE, nlink |-> 0],
              work |-> Tmp(p), why |-> "main"]]
    /\ pc = [p \in Runs |-> "main"]
    /\ was = t.to

-----------------------------------------------------------------------------
At(p, s)   == pc[p] = s
Goto(p, s) == pc' = [pc EXCEPT ![p] = s]
Set(p, r)  == l' = [l EXCEPT ![p] = r]
Fail(p)    == Goto(p, "failed") /\ l' = [l EXCEPT ![p].why = pc[p]]
FailClean(p) ==      \* err() after unlink() of the file being filled
  dir' = [dir EXCEPT ![l[p].work] = None] /\ file' = file /\ Fail(p)
FailUnlink(p) ==     \* err() after unlink(to_name)
  dir' = [dir EXCEPT !["to"] = None] /\ file' = file /\ Fail(p)
(* What open(2) and chflags(2) find under the target's name: of a symbolic
   link, the source.                                                        *)
Leads == IF dir["to"] \in {<<p, "sym">> : p \in Proc} THEN Src ELSE dir["to"]
Write(p, d) == file' = [file EXCEPT ![l[p].fd].data = d] /\ dir' = dir
NLink(i) == Cardinality({n \in Name : dir[n] = i})
StatOfShort(i) ==   \* mutant: the link count is not taken along
  [mode |-> file[i].mode, own |-> file[i].own, imm |-> file[i].imm]
StatOf(i) == [mode |-> file[i].mode, own |-> file[i].own, imm |-> file[i].imm,
              nlink |-> NLink(i)]

(* main(): the source is not the target (link it may be). *)
Main(p) ==
  /\ At(p, "main")
  /\ IF req[p].link = "none" /\ dir["to"] = Src /\ req[p].src = "x"
     THEN Fail(p) ELSE Goto(p, "start") /\ UNCHANGED l
  /\ UNCHANGED <<fs, req, was>>

(* lstat(to_name), the tests on what is there, open(from_name).  Of a target
   that is absent to_sb.st_flags keeps whatever the stack held.             *)
Lstat(p) ==
  /\ At(p, "start")
  /\ IF dir["to"] = None
     THEN \E junk \in BOOLEAN : Set(p, [l[p] EXCEPT !.sb.imm = junk])
     ELSE Set(p, [l[p] EXCEPT !.target = TRUE, !.sb = StatOf(dir["to"])])
  /\ \/ /\ req[p].link # "none"
        /\ Goto(p, IF req[p].link = "sym" THEN "symlink" ELSE "link")
     \/ /\ req[p].link = "none" /\ dir["to"] # Dir
        /\ Goto(p, IF Has(p, "C") /\ ~ Has(p, "s") /\ dir["to"] # None /\ dir["to"] = Leads
                   THEN "compare" ELSE "temp")
  /\ UNCHANGED <<fs, req, was>>

(* A target that is no regular file, or a source that cannot be opened. *)
StartFails(p) == At(p, "start") /\ Fail(p) /\ UNCHANGED <<fs, req, was>>

(* compare() of the source and the target; it gives up (and reports a
   difference) on large files and on read errors.                           *)
Compare(p) ==
  /\ At(p, "compare")
  /\ IF dir["to"] = None THEN Fail(p)
     ELSE \E ok \in BOOLEAN :
       IF ok /\ file[Leads].data = Plain(p)
       THEN Set(p, [l[p] EXCEPT !.match = TRUE, !.fd = Leads]) /\ Goto(p, "fstat")
       ELSE Goto(p, "temp") /\ UNCHANGED l
  /\ UNCHANGED <<fs, req, was>>

(* create_tempfile() *)
Temp(p) ==
  /\ At(p, "temp") /\ ~ Has(p, "sandbox")
  /\ dir' = [dir EXCEPT ![Tmp(p)] = <<p, "new">>]
  /\ file' = [file EXCEPT ![<<p, "new">>] = New]
  /\ Set(p, [l[p] EXCEPT !.fd = <<p, "new">>])
  /\ Goto(p, IF Has(p, "null") THEN IF Has(p, "s") THEN "strip2" ELSE "unlock"
             ELSE IF Has(p, "s") THEN "strip" ELSE "copy")
  /\ UNCHANGED <<req, was>>
TempFails(p) == At(p, "temp") /\ Fail(p) /\ UNCHANGED <<fs, req, was>>

(* The sandbox refuses a temporary file with EPERM: the target is unlinked
   and created anew, and filled in place.                                   *)
Direct(p) ==
  /\ At(p, "temp") /\ Has(p, "sandbox")
  /\ dir' = IF l[p].target THEN [dir EXCEPT !["to"] = None] ELSE dir
  /\ Goto(p, "excl")
  /\ UNCHANGED <<file, l, req, was>>
DirectOpen(p) ==
  /\ At(p, "excl")
  /\ IF dir["to"] # None THEN Fail(p) /\ UNCHANGED fs
     ELSE /\ dir' = [dir EXCEPT !["to"] = <<p, "new">>]
          /\ \E m \in {"plain", req[p].mode} :       \* open(mode) under umask
               file' = [file EXCEPT ![<<p, "new">>] = [New EXCEPT !.mode = m]]
          /\ Set(p, [l[p] EXCEPT !.fd = <<p, "new">>, !.work = "to"])
          /\ Goto(p, IF Has(p, "s") THEN "strip" ELSE "copy")
  /\ UNCHANGED <<req, was>>

(* What strip(1) makes of the file named work: stripped in place, or a new
   file in its stead.                                                       *)
Stripped(p, next) ==
  /\ \/ Write(p, Want(p))
     \/ /\ dir' = [dir EXCEPT ![l[p].work] = <<p, "strip">>]
        /\ file' = [file EXCEPT ![<<p, "strip">>] =
                      [file[l[p].fd] EXCEPT !.data = Want(p)]]
  /\ Goto(p, next) /\ UNCHANGED l

(* strip -o work from: when it exits nonzero the file is copied instead. *)
Strip(p) ==
  /\ At(p, "strip")
  /\ \/ ~ Has(p, "null") /\ Stripped(p, IF l[p].work = "to" THEN "fstat" ELSE "reopen")
     \/ Goto(p, "copy") /\ UNCHANGED <<fs, l>>
     \/ FailClean(p)
  /\ UNCHANGED <<req, was>>

(* copy(): some bytes, then all of them; an error removes the file.  With
   /dev/null there is no from_fd: its lseek fails before anything is removed.*)
CopySome(p) ==
  /\ At(p, "copy")
  /\ IF Has(p, "null") THEN Fail(p) /\ UNCHANGED fs
     ELSE Write(p, <<req[p].src, "part">>) /\ Goto(p, "copying") /\ UNCHANGED l
  /\ UNCHANGED <<req, was>>
(* Mutant: the second try to strip is left out. *)
CopyRestUnstripped(p) ==
  /\ At(p, "copying")
  /\ \/ /\ Write(p, Plain(p)) /\ UNCHANGED l
        /\ Goto(p, IF l[p].work = "to" THEN "fstat" ELSE "unlock")
     \/ FailClean(p)
  /\ UNCHANGED <<req, was>>
CopyRest(p) ==
  /\ At(p, "copying")
  /\ \/ /\ Write(p, Plain(p)) /\ UNCHANGED l
        /\ Goto(p, IF l[p].work = "to" THEN "fstat"
                   ELSE IF Has(p, "s") THEN "strip2" ELSE "unlock")
     \/ FailClean(p)
  /\ UNCHANGED <<req, was>>

(* strip work, when stripping while copying did not work. *)
StripInPlace(p) ==
  /\ At(p, "strip2")
  /\ \/ ~ Has(p, "null") /\ Stripped(p, "reopen")
     \/ FailClean(p)
  /\ UNCHANGED <<req, was>>

(* The temporary file is opened again, in case strip made a new one. *)
Reopen(p) ==
  /\ At(p, "reopen")
  /\ \/ /\ Set(p, [l[p] EXCEPT !.fd = dir[Tmp(p)]])
        /\ Goto(p, IF Has(p, "C") /\ l[p].target THEN "compare2" ELSE "unlock")
     \/ Fail(p)
  /\ UNCHANGED <<fs, req, was>>

(* compare() of the stripped file and the target, which is kept when they
   agree unless it has other links.                                         *)
CompareStripped(p) ==
  /\ At(p, "compare2")
  /\ \/ dir["to"] # None
        /\ \E ok \in BOOLEAN :
             LET same == ok /\ file[Leads].data = file[l[p].fd].data
                 keep == same /\ l[p].sb.nlink = 1
             IN  /\ Set(p, [l[p] EXCEPT !.fd = Leads, !.match = keep])
                 /\ dir' = IF keep THEN [dir EXCEPT ![Tmp(p)] = None] ELSE dir
                 /\ Goto(p, IF keep THEN "fstat" ELSE "unlock")
                 /\ file' = file
     \/ Fail(p) /\ UNCHANGED fs          \* open(to_name)
     \/ dir["to"] # None /\ FailClean(p) \* fstat(temp_fd)
  /\ UNCHANGED <<req, was>>

-----------------------------------------------------------------------------
(* chflags(to_name): the immutable bits go off (or the call fails). *)
Relabel(imm) ==
  file' = IF dir["to"] = None THEN file ELSE [file EXCEPT ![Leads].imm = imm]
Unlock(p) ==
  /\ At(p, "unlock")
  /\ \/ l[p].sb.imm /\ Relabel(FALSE)
     \/ UNCHANGED file
  /\ Goto(p, IF l[p].target /\ Has(p, "b") THEN "unlinkbak" ELSE "rename")
  /\ UNCHANGED <<dir, l, req, was>>

(* A failure of the backup takes the temporary file away and puts the
   immutable bits back.                                                     *)
BackupFails(p) ==
  /\ dir' = [dir EXCEPT ![Tmp(p)] = None]
  /\ IF l[p].sb.imm THEN Relabel(TRUE) ELSE file' = file
  /\ Fail(p)
UnlinkBackup(p) ==
  /\ At(p, "unlinkbak")
  /\ \/ /\ dir' = [dir EXCEPT !["bak"] = None]
        /\ Goto(p, "linkbak") /\ UNCHANGED <<file, l>>
     \/ BackupFails(p)
  /\ UNCHANGED <<req, was>>
(* Mutant: the backup is made by renaming the target. *)
LinkBackupRename(p) ==
  /\ At(p, "linkbak")
  /\ \/ /\ dir["to"] # None /\ ~ file[dir["to"]].imm
        /\ dir' = [dir EXCEPT !["bak"] = dir["to"], !["to"] = None]
        /\ Goto(p, "rename") /\ UNCHANGED <<file, l>>
     \/ BackupFails(p)
  /\ UNCHANGED <<req, was>>
LinkBackup(p) ==
  /\ At(p, "linkbak")
  /\ \/ /\ dir["bak"] = None /\ dir["to"] # None /\ ~ file[dir["to"]].imm
        /\ dir' = [dir EXCEPT !["bak"] = dir["to"]]
        /\ Goto(p, "rename") /\ UNCHANGED <<file, l>>
     \/ BackupFails(p)
  /\ UNCHANGED <<req, was>>

(* rename(tempfile, to_name) *)
Rename(p) ==
  /\ At(p, "rename")
  /\ \/ /\ dir["to"] # None => ~ file[dir["to"]].imm
        /\ dir' = [dir EXCEPT !["to"] = dir[Tmp(p)], ![Tmp(p)] = None]
        /\ Goto(p, "reopento") /\ UNCHANGED <<file, l>>
     \/ FailClean(p)
  /\ UNCHANGED <<req, was>>
ReopenTo(p) ==
  /\ At(p, "reopento")
  /\ \/ /\ dir["to"] # None
        /\ Set(p, [l[p] EXCEPT !.fd = Leads]) /\ Goto(p, "fstat")
     \/ Fail(p)
  /\ UNCHANGED <<fs, req, was>>

-----------------------------------------------------------------------------
(* The attributes, from "copied:" on.  to_sb is read once, here. *)
Fstat(p) ==
  /\ At(p, "fstat")
  /\ \/ /\ Set(p, [l[p] EXCEPT !.sb = StatOf(l[p].fd)])
        /\ Goto(p, "chown") /\ UNCHANGED fs
     \/ FailUnlink(p)
  /\ UNCHANGED <<req, was>>

Owns(p)  == ~ Has(p, "U") /\ Has(p, "chown") /\ l[p].sb.own # "want"
Modes(p) == req[p].mode # l[p].sb.mode
Chowned(p, off, drop) ==   \* off: the immutable bits; drop: the setuid bit
  LET a == file[l[p].fd] IN
    [data |-> a.data, imm |-> a.imm /\ ~ off,
     own  |-> IF Owns(p) THEN "want" ELSE a.own,
     mode |-> IF Owns(p) /\ drop /\ a.mode = "suid" THEN "plain" ELSE a.mode]
(* Immutable bits off, then fchown, which may clear the setuid bit. *)
Chown(p) ==
  /\ At(p, "chown")
  /\ \/ \E off, drop \in BOOLEAN :
          /\ off => ~ Has(p, "U") /\ l[p].sb.imm /\ (Owns(p) \/ Modes(p))
          /\ file' = [file EXCEPT ![l[p].fd] = Chowned(p, off, drop)]
          /\ Goto(p, "chmod") /\ UNCHANGED <<dir, l>>
     \/ Owns(p) /\ FailUnlink(p)
  /\ UNCHANGED <<req, was>>
Chmod(p) ==
  /\ At(p, "chmod")
  /\ \/ /\ file' = IF Modes(p)
                   THEN [file EXCEPT ![l[p].fd].mode =
                           IF Has(p, "U") THEN "plain" ELSE req[p].mode]
                   ELSE file
        /\ Goto(p, "chflags") /\ UNCHANGED <<dir, l>>
     \/ Modes(p) /\ FailUnlink(p)
  /\ UNCHANGED <<req, was>>
(* The flags of -f, else those of the source unless to_sb has them. *)
Chflags(p) ==
  LET asked == Has(p, "f")
      sets  == ~ Has(p, "U") /\ ~ Has(p, "null")
                 /\ (asked \/ Has(p, "simm") # l[p].sb.imm)
  IN  /\ At(p, "chflags")
      /\ \/ /\ file' = IF sets THEN [file EXCEPT ![l[p].fd].imm =
                                       asked \/ Has(p, "simm")]
                       ELSE file
            /\ Goto(p, "done") /\ UNCHANGED <<dir, l>>
         \/ /\ sets /\ ~ asked      \* a failure is ignored
            /\ Goto(p, "done") /\ UNCHANGED <<fs, l>>
         \/ sets /\ asked /\ FailUnlink(p)
      /\ UNCHANGED <<req, was>>

-----------------------------------------------------------------------------
(* do_link, do_symlink: a link made under a temporary name replaces a target
   that lstat found; without one it is made directly.                       *)
MakeLink(p, i) ==
  LET n == IF l[p].target THEN Tmp(p) ELSE "to"
  IN  /\ dir[n] = None
      /\ dir' = [dir EXCEPT ![n] = i]
      /\ Goto(p, IF l[p].target THEN "rmdir" ELSE "done")
HardLink(p) ==
  /\ At(p, "link")
  /\ \/ MakeLink(p, Src) /\ UNCHANGED l
     \/ req[p].link = "mixed" /\ Goto(p, "symlink") /\ UNCHANGED <<dir, l>>
     \/ Fail(p) /\ UNCHANGED dir
  /\ UNCHANGED <<file, req, was>>
SymLink(p) ==
  /\ At(p, "symlink")
  /\ \/ MakeLink(p, <<p, "sym">>) /\ UNCHANGED l
     \/ Fail(p) /\ UNCHANGED dir
  /\ UNCHANGED <<file, req, was>>
LinkRmdir(p) ==
  /\ At(p, "rmdir")
  /\ \/ /\ dir["to"] = Dir
        /\ \/ dir' = [dir EXCEPT !["to"] = None] /\ file' = file
              /\ Goto(p, "lunlock") /\ UNCHANGED l
           \/ FailClean(p)
     \/ dir["to"] # Dir /\ Goto(p, "lunlock") /\ UNCHANGED <<fs, l>>
  /\ UNCHANGED <<req, was>>
LinkUnlock(p) ==
  /\ At(p, "lunlock")
  /\ \/ l[p].sb.imm /\ Relabel(FALSE)
     \/ UNCHANGED file
  /\ Goto(p, "lrename")
  /\ UNCHANGED <<dir, l, req, was>>
(* rename(2) does nothing when both names lead to one file. *)
LinkRename(p) ==
  /\ At(p, "lrename")
  /\ \/ /\ dir["to"] # None => ~ file[dir["to"]].imm
        /\ dir' = IF dir["to"] = dir[Tmp(p)] THEN dir
                  ELSE [dir EXCEPT !["to"] = dir[Tmp(p)], ![Tmp(p)] = None]
        /\ Goto(p, "lunlink") /\ UNCHANGED <<file, l>>
     \/ FailClean(p)
  /\ UNCHANGED <<req, was>>
LinkUnlink(p) ==
  /\ At(p, "lunlink")
  /\ dir' = [dir EXCEPT ![Tmp(p)] = None]
  /\ Goto(p, "done")
  /\ UNCHANGED <<file, l, req, was>>

Next ==
  \E p \in Runs :
    \/ Main(p) \/ Lstat(p) \/ StartFails(p) \/ Compare(p) \/ Temp(p) \/ TempFails(p)
    \/ Direct(p) \/ DirectOpen(p) \/ Strip(p) \/ CopySome(p) \/ CopyRest(p)
    \/ StripInPlace(p) \/ Reopen(p) \/ CompareStripped(p)
    \/ Unlock(p) \/ UnlinkBackup(p) \/ LinkBackup(p) \/ Rename(p) \/ ReopenTo(p)
    \/ Fstat(p) \/ Chown(p) \/ Chmod(p) \/ Chflags(p)
    \/ HardLink(p) \/ SymLink(p) \/ LinkRmdir(p) \/ LinkUnlock(p)
    \/ LinkRename(p) \/ LinkUnlink(p)

Spec == Init /\ [][Next]_vars
=============================================================================
