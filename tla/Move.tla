-------------------------------- MODULE Move --------------------------------
(***************************************************************************)
(* mv(1): do_move(), fastcopy() and copy() of mv/mv.c, for processes that  *)
(* each move a source of their own to one target name, beside a program    *)
(* that may create the target.  A step is one system call, or the child    *)
(* cp(1) or rm(1); each may fail, and each state is what a crash leaves.   *)
(*                                                                         *)
(*   dir    what the names lead to: the sources (named like their process),*)
(*          the target "to", and "in", the entry cp(1) makes below a target*)
(*          that has become a directory                                    *)
(*   file   kind, data and attributes of the inodes; data is whose data it *)
(*          is and whether it is all there                                 *)
(*   l      fd (the inode being filled), keep (fchown worked)              *)
(*   status the result of do_move                                          *)
(***************************************************************************)
EXTENDS Naturals, FiniteSets

CONSTANTS
  Proc,      \* the mv processes
  Scenes,    \* who runs with which options, what is under the target name
  Creator    \* whether another program may create the target

None    == <<"fs", "none">>
There   == <<"fs", "there">>     \* the target at the start
Created == <<"fs", "created">>   \* the other program's file
Inode   == {There, Created} \cup Proc \X {"src", "new"}
Kind    == {"reg", "dir", "emptydir", "lnk"}      \* lnk: a dangling symlink
FileType == [kind : Kind, of : Proc \cup {"there", "created"}, whole : BOOLEAN,
             mode0 : BOOLEAN, suid : BOOLEAN, own : {"me", "other"},
             writable : BOOLEAN]
(* flag: the last of -f, -i and -n; indir: the last operand of the command
   is a directory, and the target the name made up in it; cross: the target
   is on another file system; same: the source is a link of the target.     *)
RequestType == [flag : {"", "f", "i", "n"}, indir : BOOLEAN, cross : BOOLEAN,
                same : BOOLEAN, kind : {"reg", "dir", "lnk"}, suid : BOOLEAN,
                own : {"me", "other"}, tty : BOOLEAN]
TargetType == [there : BOOLEAN, kind : Kind, writable : BOOLEAN]

(* The processes are not the names and the owners that are fixed here. *)
ASSUME ProcAssumption ==
  IsFiniteSet(Proc) /\ \A p \in Proc : p \notin {"to", "in", "there", "created"}
(* A scene: the command lines of the processes that run, and the target. *)
ASSUME MoveAssumption ==
  /\ Creator \in BOOLEAN
  /\ \A s \in Scenes :
       /\ DOMAIN s.req \subseteq Proc /\ DOMAIN s.req # {} /\ s.to \in TargetType
       /\ s.req \in [DOMAIN s.req -> RequestType]
       /\ \A p \in DOMAIN s.req : LET r == s.req[p] IN
            /\ r.same => ~ r.cross /\ r.kind = "reg" /\ s.to.there /\ s.to.kind = "reg"
            /\ ~ r.indir => ~ s.to.there \/ s.to.kind \in {"reg", "lnk"}

VARIABLES dir, file, req, l, pc, status
vars == <<dir, file, req, l, pc, status>>
Runs == DOMAIN req

Pcs == {"main", "access", "ask", "rename", "xdev", "open", "create", "unlink",
        "write", "rest", "chown", "chmod", "finish", "clear", "cp", "rm", "exit"}

(* Every name and every local keeps its type. *)
TypeOK ==
  /\ dir \in [{"to", "in"} \cup Proc -> Inode \cup {None}]
  /\ file \in [Inode -> FileType]
  /\ req \in [Runs -> RequestType]
  /\ l \in [Runs -> [fd : Inode \cup {None}, keep : BOOLEAN]]
  /\ pc \in [Runs -> Pcs]
  /\ status \in [Runs -> 0 .. 2]

Node(kind, of) ==
  [kind |-> kind, of |-> of, whole |-> TRUE, mode0 |-> FALSE, suid |-> FALSE,
   own |-> "me", writable |-> TRUE]
Init ==
  \E s \in Scenes : LET t == s.to IN
    /\ req = s.req
    /\ dir = [n \in {"to", "in"} \cup Proc |->
                IF n \notin Runs \cup {"to"} \/ (n = "to" /\ ~ t.there) THEN None
                ELSE IF n = "to" \/ req[n].same THEN There ELSE <<n, "src">>]
    /\ file = [i \in Inode |->
                 IF i = There THEN [Node(t.kind, "there") EXCEPT !.writable = t.writable]
                 ELSE IF i = Created THEN Node("reg", "created")
                 ELSE IF i[1] \notin Runs THEN Node("reg", i[1])
                 ELSE [Node(req[i[1]].kind, i[1]) EXCEPT
                         !.suid = i[2] = "src" /\ req[i[1]].suid,
                         !.own = IF i[2] = "src" THEN req[i[1]].own ELSE "me"]]
    /\ l = [p \in Runs |-> [fd |-> None, keep |-> FALSE]]
    /\ pc = [p \in Runs |-> "main"]
    /\ status = [p \in Runs |-> 0]

-----------------------------------------------------------------------------
At(p, s)   == p \in Runs /\ pc[p] = s
Goto(p, s) == pc' = [pc EXCEPT ![p] = s]
Exit(p, s) == Goto(p, "exit") /\ status' = [status EXCEPT ![p] = s]
Go(p, s)   == Goto(p, s) /\ status' = status
To         == dir["to"]
KindOf(i)  == IF i = None THEN "none" ELSE file[i].kind
IsDir(i)   == KindOf(i) \in {"dir", "emptydir"}

(* main(): in a directory a target that is the source itself is refused. *)
Main(p) ==
  /\ At(p, "main")
  /\ IF req[p].indir /\ dir[p] # None /\ dir[p] = To THEN Exit(p, 2)
     ELSE Go(p, "access")
  /\ UNCHANGED <<dir, file, req, l>>

(* access(to, F_OK) follows a symbolic link, and then it is asked whether to
   go on: never with -n, with -i, or when the target cannot be written and
   somebody is at the terminal.                                             *)
(* Mutant: -n is looked at after what asks the user. *)
AccessAsksFirst(p) ==
  /\ At(p, "access")
  /\ IF req[p].flag = "f" \/ KindOf(To) \in {"none", "lnk"} THEN Go(p, "rename")
     ELSE IF dir[p] = None THEN Exit(p, 1)
     ELSE IF req[p].flag = "i" \/ ~ file[To].writable THEN Go(p, "ask")
     ELSE IF req[p].flag = "n" THEN Exit(p, 0) ELSE Go(p, "rename")
  /\ UNCHANGED <<dir, file, req, l>>
Access(p) ==
  /\ At(p, "access")
  /\ IF req[p].flag = "f" \/ KindOf(To) \in {"none", "lnk"} THEN Go(p, "rename")
     ELSE IF dir[p] = None THEN Exit(p, 1)
     ELSE IF req[p].flag = "n" THEN Exit(p, 0)
     ELSE IF req[p].flag = "i" \/ (~ file[To].writable /\ req[p].tty) THEN Go(p, "ask")
     ELSE Go(p, "rename")
  /\ UNCHANGED <<dir, file, req, l>>
Ask(p) ==
  /\ At(p, "ask")
  /\ \/ Go(p, "rename")
     \/ Exit(p, 0)
  /\ UNCHANGED <<dir, file, req, l>>

(* rename(2): nothing happens to two links of one file; a directory replaces
   an empty directory only, and nothing else does; then the file systems are
   compared.                                                                *)
Fits(p) == IF KindOf(dir[p]) \in {"dir", "emptydir"}
           THEN KindOf(To) \in {"none", "emptydir"} ELSE ~ IsDir(To)
(* Mutant: a failing rename's -1 becomes the status. *)
RenameStatus(p) ==
  /\ At(p, "rename") /\ Exit(p, 255)
  /\ UNCHANGED <<dir, file, req, l>>
Rename(p) ==
  /\ At(p, "rename")
  /\ \/ /\ dir[p] # None /\ Fits(p) /\ ~ req[p].cross
        /\ dir' = IF dir[p] = To THEN dir
                  ELSE [dir EXCEPT !["to"] = dir[p], ![p] = None]
        /\ Exit(p, 0)
     \/ /\ dir[p] # None /\ Fits(p) /\ req[p].cross
        /\ Go(p, "xdev") /\ UNCHANGED dir
     \/ Exit(p, 1) /\ UNCHANGED dir
  /\ UNCHANGED <<file, req, l>>

(* Across file systems: regular files are copied here, others by cp and rm. *)
CrossDevice(p) ==
  /\ At(p, "xdev")
  /\ \/ Go(p, IF KindOf(dir[p]) = "reg" THEN "open" ELSE "clear")
     \/ Exit(p, 1)              \* lstat or realpath fails, or a mount point
  /\ UNCHANGED <<dir, file, req, l>>

-----------------------------------------------------------------------------
(* fastcopy() *)
Open(p) ==
  /\ At(p, "open")
  /\ Go(p, "create") \/ Exit(p, 1)
  /\ UNCHANGED <<dir, file, req, l>>

Fresh(p) == [Node("reg", p) EXCEPT !.whole = FALSE, !.mode0 = TRUE]
(* open(O_CREAT|O_EXCL) with mode 0, until nothing is in its way. *)
Create(p) ==
  /\ At(p, "create")
  /\ \/ /\ To = None
        /\ dir' = [dir EXCEPT !["to"] = <<p, "new">>]
        /\ file' = [file EXCEPT ![<<p, "new">>] = Fresh(p)]
        /\ l' = [l EXCEPT ![p].fd = <<p, "new">>]
        /\ Go(p, "write")
     \/ To # None /\ Go(p, "unlink") /\ UNCHANGED <<dir, file, l>>
     \/ Exit(p, 1) /\ UNCHANGED <<dir, file, l>>
  /\ UNCHANGED req
(* Mutant: open is tried again whether unlink works or not. *)
UnlinkAgain(p) ==
  /\ At(p, "unlink")
  /\ dir' \in {dir, [dir EXCEPT !["to"] = None]}
  /\ Go(p, "create")
  /\ UNCHANGED <<file, req, l>>
Unlink(p) ==
  /\ At(p, "unlink")
  /\ \/ /\ To # None /\ ~ IsDir(To)
        /\ dir' = [dir EXCEPT !["to"] = None] /\ Go(p, "create")
     \/ Exit(p, 1) /\ UNCHANGED dir
  /\ UNCHANGED <<file, req, l>>

(* The data, in more than one write; an error removes the target's name,
   unless it has become a directory's.                                      *)
Write(p) ==
  /\ At(p, "write") /\ Go(p, "rest")
  /\ UNCHANGED <<dir, file, req, l>>
WriteRest(p) ==
  /\ At(p, "rest")
  /\ \/ /\ file' = [file EXCEPT ![l[p].fd].whole = TRUE]
        /\ Go(p, "chown") /\ dir' = dir
     \/ /\ dir' = IF IsDir(To) THEN dir ELSE [dir EXCEPT !["to"] = None]
        /\ file' = file /\ Exit(p, 1)
  /\ UNCHANGED <<req, l>>
(* fchown may fail: then the setuid bits are not copied. *)
Chown(p) ==
  /\ At(p, "chown")
  /\ \E ok \in BOOLEAN :
       /\ file' = [file EXCEPT ![l[p].fd].own =
                     IF ok THEN req[p].own ELSE file[l[p].fd].own]
       /\ l' = [l EXCEPT ![p].keep = ok]
  /\ Go(p, "chmod")
  /\ UNCHANGED <<dir, req>>
(* fchmod, flags and times only warn when they fail. *)
Chmod(p) ==
  /\ At(p, "chmod")
  /\ \/ file' = [file EXCEPT ![l[p].fd] =
                   [file[l[p].fd] EXCEPT !.mode0 = FALSE, !.suid = req[p].suid /\ l[p].keep]]
     \/ file' = file
  /\ Go(p, "finish")
  /\ UNCHANGED <<dir, req, l>>
(* close, then unlink(from). *)
Finish(p) ==
  /\ At(p, "finish")
  /\ \/ dir[p] # None /\ dir' = [dir EXCEPT ![p] = None] /\ Exit(p, 0)
     \/ Exit(p, 1) /\ UNCHANGED dir
  /\ UNCHANGED <<file, req, l>>

-----------------------------------------------------------------------------
(* copy(): what is under the target name goes away ... *)
Clear(p) ==
  /\ At(p, "clear")
  /\ \/ /\ KindOf(To) # "dir"
        /\ dir' = [dir EXCEPT !["to"] = None] /\ Go(p, "cp")
     \/ Exit(p, 1) /\ UNCHANGED dir
  /\ UNCHANGED <<file, req, l>>
(* Mutant: cp's exit status is not looked at. *)
CopyUnchecked(p) ==
  LET name == IF IsDir(To) THEN "in" ELSE "to"
  IN  /\ At(p, "cp")
      /\ dir[p] # None /\ dir[name] = None
      /\ \E all \in BOOLEAN :
           /\ dir' = [dir EXCEPT ![name] = <<p, "new">>]
           /\ file' = [file EXCEPT ![<<p, "new">>] = [file[dir[p]] EXCEPT !.whole = all]]
      /\ Go(p, "rm")
      /\ UNCHANGED <<req, l>>
(* ... and cp -PRp makes a copy of the source there, or in a directory that
   has come there since, or a part of it.                                   *)
Copy(p) ==
  LET name == IF IsDir(To) THEN "in" ELSE "to"
      copy == [file[dir[p]] EXCEPT !.of = p]
  IN  /\ At(p, "cp")
      /\ \/ /\ dir[p] # None /\ dir[name] = None
            /\ \E all \in BOOLEAN :
                 /\ dir' = [dir EXCEPT ![name] = <<p, "new">>]
                 /\ file' = [file EXCEPT ![<<p, "new">>] = [copy EXCEPT !.whole = all]]
                 /\ IF all THEN Go(p, "rm") ELSE Exit(p, 1)
         \/ Exit(p, 1) /\ UNCHANGED <<dir, file>>
      /\ UNCHANGED <<req, l>>
(* rm -rf of the source, which may stop in the middle. *)
Remove(p) ==
  /\ At(p, "rm")
  /\ \/ dir' = [dir EXCEPT ![p] = None] /\ file' = file /\ Exit(p, 0)
     \/ /\ file' = IF dir[p] # None /\ file[dir[p]].kind = "dir"
                   THEN [file EXCEPT ![dir[p]].whole = FALSE] ELSE file
        /\ dir' = dir /\ Exit(p, 1)
     \/ UNCHANGED <<dir, file>> /\ Exit(p, 1)
  /\ UNCHANGED <<req, l>>

(* The other program, as often as it likes: each time a new file, for which
   the inode of the last one, that has no name any more, stands again.      *)
Create1 ==
  /\ Creator /\ To = None /\ \A n \in DOMAIN dir : dir[n] # Created
  /\ dir' = [dir EXCEPT !["to"] = Created]
  /\ UNCHANGED <<file, req, l, pc, status>>

Step(p) ==
  \/ Main(p) \/ Access(p) \/ Ask(p) \/ Rename(p) \/ CrossDevice(p)
  \/ Open(p) \/ Create(p) \/ Unlink(p) \/ Write(p) \/ WriteRest(p)
  \/ Chown(p) \/ Chmod(p) \/ Finish(p) \/ Clear(p) \/ Copy(p) \/ Remove(p)
Next == Create1 \/ \E p \in Runs : Step(p)

(* A started mv runs to its end: system calls and children return. *)
Spec == Init /\ [][Next]_vars
FairSpec == Spec /\ \A p \in Proc : WF_vars(Step(p))
=============================================================================
