--------------------------- MODULE PaxWriteProps ---------------------------
(* What an archive that pax has written, or is writing, can be relied on for. *)
EXTENDS PaxWrite

Flat    == FlattenSeq([vols EXCEPT ![Len(vols)] = SubSeq(@, 1, dev.off)])
Held    == Part(0, b.pt)
Size(x) == x.head + x.size + x.pad
Ends(s) == LET e[i \in 0 .. Len(s.members)] ==
                 IF i = 0 THEN IF s.app THEN s.data ELSE 0
                 ELSE e[i - 1] + Size(s.members[i])
           IN  e
Before(m) == Ends(sc)[m]
Count     == Len(sc.members)

(* An archive is appended to in the blocks it was written in until the next
   volume is opened, which takes the block size of the command.  buf_flush
   miscounts what the buffer holds when that one is smaller, and writes
   nothing when it is larger.                                               *)
Shrinks == sc.app /\ sc.wr # 0 /\ sc.wr < RdBlksz
Grows   == sc.app /\ sc.wr > RdBlksz

(* The volumes one after the other, and then what the buffer holds, are the
   old members of the archive and all that was put since, in that order, with
   nothing between or left out, however writes fell short, whenever volumes
   changed and wherever the old trailer began (buf_flush, appnd_start).     *)
InOrder ==
  dev.gone \/ Shrinks \/ LET s == Flat \o Held
                         IN  /\ Len(s) >= k.put
                             /\ \A i \in DOMAIN s : s[i] = IF i <= k.put THEN i ELSE 0

(* Each part of a member ends where its header says: a file that got shorter
   is made up for, one that got longer is cut, and the next header, and after
   the last member the trailer, is where a reader looks for it (wr_archive,
   wr_rdfile).                                                              *)
Layout ==
  ~ k.broken =>
    /\ k.pc = "member" => k.put = Before(k.m)
    /\ k.pc \in {"put", "move", "flush", "write", "next"} =>
         /\ k.call = "head" => k.put + k.todo = Before(k.m - 1) + Mem.head
         /\ k.call \in {"file", "left"} => k.put + k.todo = Before(k.m) - Mem.pad
         /\ k.call = "pad"  => k.put + k.todo = Before(k.m)
         /\ k.call = "tail" => k.put + k.todo = Before(Count) + sc.tlen

(* A pax that ends with status 0, and has not warned that the archive may be
   flawed, has every member and the trailer on its volumes, but for what a
   reader that closed its pipe did not want.                                *)
All == /\ k.put = Before(Count) + (IF k.wrone THEN sc.tlen ELSE 0)
       /\ b.pt = 0 \/ Len(Flat) >= k.put
Done == k.pc = "exit" /\ k.exit = 0 /\ ~ dev.gone
Told == Done /\ ~ k.warned /\ ~ Shrinks /\ ~ Grows => All
(* While the end of an archive is rewritten, less than one block of its old
   members is in memory only (appnd_start goes back no further than to the
   block in which the trailer starts).                                      *)
TailAtRisk ==
  sc.app => Len(Flat) > sc.data - RdBlksz

(* The archive is in order, each part where a reader looks for it, and whole
   when pax says so.                                                        *)
ArchiveRight == InOrder /\ Layout /\ Told /\ TailAtRisk

(* Once an archive write has failed for good, nothing else, the trailer not
   either, is written, so that an archive that stops short does not look
   complete; but for the volumes pax has called flawed, after which it goes
   on to the next.                                                          *)
FailStops == [][k.broken /\ ~ k.warned => Flat' = Flat]_vars

(* Every command comes to its end. *)
Terminates == <>(k.pc \in {"exit", "crash"})
=============================================================================
