--------------------------- MODULE MCAddressSpace ---------------------------
(* Instances of AddressSpace: a board in three configurations, and the       *)
(* memory of I, Robot.                                                       *)
EXTENDS AddressSpace, Sequences

Mem(id, start, length, access) ==
  [op |-> "region", id |-> id, start |-> start, length |-> length, access |-> access]
Bank(start, id, base) ==
  [op |-> "remap_pages", start |-> start, count |-> 1, region |-> id, base |-> base]

(* Work RAM, an I/O page and a write-only page seen through a mirror; the    *)
(* same with more RAM; the same with ROM and RAM to bank in over the first.  *)
Plain(ram) ==
  <<Mem(1, 0, ram, "ReadWrite"), Mem(2, 1, 1, "Io"), Mem(3, 2, 1, "WriteOnly"),
    [op |-> "mirror", start |-> 3, source |-> 2, length |-> 1]>>
Banked == Plain(1) \o <<[op |-> "backing_region", id |-> 4, length |-> 1],
                        Mem(5, 3, 1, "ReadWrite")>>
MCBoards == {Plain(1), Plain(2), Banked}
MCBanks == {Bank(0, 1, 0), Bank(0, 1, 1), Bank(0, 4, 0), Bank(0, 5, 0)}

(* Two addresses of a page and one of another.                               *)
MCWatchable == {<<0, 0>>, <<0, 1>>, <<2, 0>>}

(* I, Robot (machines/src/irobot.rs:822), a page for each of its blocks:     *)
(* work RAM, a window on three banks of RAM, video RAM.                      *)
Irobot == <<Mem(1, 0, 1, "ReadWrite"), [op |-> "backing_region", id |-> 2, length |-> 3],
            Mem(3, 2, 1, "ReadWrite"), Bank(1, 2, 0)>>
IrobotBoards == {Irobot}
RamBanks == {Bank(1, 2, bank) : bank \in 0..2}
=============================================================================
