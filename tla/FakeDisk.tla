------------------------------- MODULE FakeDisk -------------------------------
(***************************************************************************)
(* The medium of the firmware (src/User/USB/usb_msc.c): a disk of 2 TB     *)
(* that is computed, not stored.  A read of a sector answers with a piece  *)
(* of a table or with zeros, chosen by its number in one chain of tests;   *)
(* a write is thrown away.  The tables are an exFAT volume, and what has   *)
(* to be right is that the chain puts every structure where the tables     *)
(* themselves say it is.                                                   *)
(*                                                                         *)
(* The decoder asks for one sector at a time, since block_buffer holds one *)
(* (CONFIG_USBDEV_MSC_MAX_BUFSIZE is 512).  The numbers are those of the   *)
(* code; they are beyond what TLC calculates with, so that this module is  *)
(* proved about (UsbdMsc_proofs) and not run.                              *)
(***************************************************************************)
EXTENDS Integers

\* usbd_msc_get_cap
BlockNum == 4294967280

Sectors == 0 .. BlockNum - 1

\* The first partition of the table in fake_mbr.
PartLba     == 2048
PartSectors == 4294965232

\* Fields of fake_exfat_boot: offsets and lengths in sectors, from the partition.
VolumeLength      == 4294965232
FatOffset         == 64
FatLength         == 32768
HeapOffset        == 32832
ClusterCount      == 4194269
RootCluster       == 3
SectorsPerCluster == 1024

\* Entries of fake_exfat_root: first cluster and length in bytes.
BitmapCluster == 2
BitmapLength  == 524284
UpcaseCluster == 4

\* Where a second copy of the boot region is meant to be: the last sectors.
TailLba == 4294967256

(***************************************************************************)
(* usbd_msc_sector_read: what a sector holds.  BootOffset is the test of   *)
(* the code: it was to take the offset from the start of the region.       *)
(***************************************************************************)
InBoot(s) == s \in PartLba .. PartLba + 23 \/ s \in TailLba .. TailLba + 23

BootOffset(s) == IF s >= PartLba THEN s - PartLba ELSE s - TailLba

\* Sector k of a boot region of twelve.
BootPart(k) ==
    IF k = 0 THEN "boot" ELSE IF k <= 8 THEN "extended" ELSE IF k = 11 THEN "checksum" ELSE "zero"

BootSector(s) == BootPart(BootOffset(s) % 12)

\* The first sectors of the areas of the volume; the rest of each is zero.
FirstSector(s) ==
    IF s = 2112 THEN "fat" ELSE IF s = 35904 THEN "root"
    ELSE IF s = 34880 THEN "bitmap" ELSE IF s = 36928 THEN "upcase" ELSE "zero"

Held(s) == IF s = 0 THEN "mbr" ELSE IF InBoot(s) THEN BootSector(s) ELSE FirstSector(s)

\* The first sector of a cluster; clusters are numbered from 2.
ClusterLba(c) == PartLba + HeapOffset + (c - 2) * SectorsPerCluster
=============================================================================
