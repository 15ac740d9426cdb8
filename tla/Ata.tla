-------------------------------- MODULE Ata --------------------------------
(***************************************************************************)
(* Reads from the disk, sys/drivers/ata/ata.c: polled, a sector at a time. *)
(*                                                                         *)
(* A drive is what answers on the bus (external): "ready" with the sectors *)
(* it cannot read, "absent" if the status reads as zero, and "busy" if it  *)
(* reads as busy for ever, as a bus without a drive may, too.  A buffer is *)
(* the sequence of the sectors that have been read into it.                *)
(***************************************************************************)
EXTENDS Integers, Sequences, SequencesExt

CONSTANT Drives

LBA_LIMIT == 268435455       \* 0x0FFFFFFF

DriveKinds == {"ready", "absent", "busy"}

ASSUME AtaAssumption ==
  \A d \in Drives : d.kind \in DriveKinds /\ d.bad \subseteq 0..LBA_LIMIT

(* The registers hold 28 bits of the number of a sector.                   *)
Selected(lba) == lba % (LBA_LIMIT + 1)

(* BSY is waited for without a limit; no data means an error as well.      *)
ata_poll(drive, sector) ==
  CASE drive.kind = "busy" -> "waits"
    [] drive.kind = "absent" -> "error"
    [] drive.kind = "ready" -> IF sector \in drive.bad THEN "error" ELSE "data"

Transfer(drive, read, sector) ==
  IF read.end # "data" THEN read
  ELSE LET end == ata_poll(drive, sector)
       IN  [end |-> end,
            buf |-> IF end = "data" THEN Append(read.buf, sector) ELSE read.buf]

(* [end, buf]: "data" for 0, "error" for -1, or "waits" if it does not     *)
(* return; the sectors before the one that failed have been stored.        *)
ata_pio_read(drive, lba, count) ==
  IF count = 0 \/ lba > LBA_LIMIT THEN [end |-> "error", buf |-> <<>>]
  ELSE FoldLeft(LAMBDA read, i : Transfer(drive, read, Selected(lba + i - 1)),
                [end |-> "data", buf |-> <<>>], [i \in 1..count |-> i])
=============================================================================
