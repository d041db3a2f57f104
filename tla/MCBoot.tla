------------------------------- MODULE MCBoot -------------------------------
(***************************************************************************)
(* The boot on 1 GiB of RAM, with two DHCP servers of which one names no   *)
(* gateway, and init programs of one or two segments, some of which the    *)
(* loader or a self-test must refuse.                                      *)
(***************************************************************************)
EXTENDS Boot

Segment(page, file, mem, perms) ==
    [vaddr |-> page * PageUnits, file |-> file, mem |-> mem, perms |-> perms]

Text(page, file, mem) == Segment(page, file, mem, {"read", "exec"})
Data(page, file, mem) == Segment(page, file, mem, {"read", "write"})

Image(segments) == [header_ok |-> TRUE, entry |-> 1024 * PageUnits, segments |-> segments]

(* Well linked: text; text and data; data below the text.  Not: text that  *)
(* ends within a page, code that is writable, another entry, a bad header. *)
MCImages ==
    { Image({Text(1024, 3, 4)}),
      Image({Text(1024, 2, 2), Data(1025, 1, 4)}),
      Image({Data(1023, 2, 2), Text(1024, 2, 4)}),
      Image({Text(1024, 1, 1), Data(1025, 1, 4)}),
      Image({Segment(1024, 2, 2, {"read", "write", "exec"})}),
      [Image({Text(1024, 4, 4)}) EXCEPT !.entry = 1025 * PageUnits],
      [Image({Text(1024, 2, 2)}) EXCEPT !.header_ok = FALSE] }

MCKernelImage == [base |-> 262272, size |-> 2048]

(* None, within the RAM, and below it.                                     *)
MCDeviceTrees == {0, 300000, 1000}

MCServers == {"alpha", "beta"}
MCSentBy == [alpha |-> {"mask", "gateway", "dns"}, beta |-> {"mask"}]
=============================================================================
