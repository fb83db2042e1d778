--------------------------- MODULE EvidenceBundle ---------------------------
(***************************************************************************)
(* The tools that leave two files behind, the second of which vouches for  *)
(* the first: discovery_probe (frames, then the observation with their     *)
(* digest) and decode_capture (the WAV, then the probe with its digest).   *)
(* Neither file is written if one is there; if the second fails, the first *)
(* is removed.  Several tools may run with the same two paths, and any of  *)
(* them may be killed.                                                     *)
(***************************************************************************)
EXTENDS Naturals

CONSTANT Writers  \* runs of the tool

VARIABLES
  place,    \* where each writer is
  data,     \* the first file: Free, or who wrote it and whether it is whole
  voucher   \* the second file, likewise

bundleVars == <<place, data, voucher>>

Free == [by |-> "nobody", whole |-> FALSE]
Begun(w) == [by |-> w, whole |-> FALSE]
Whole(w) == [by |-> w, whole |-> TRUE]

BundleInit ==
  /\ place = [w \in Writers |-> "off"]
  /\ data = Free /\ voucher = Free

Step(w, from, to) == place[w] = from /\ place' = [place EXCEPT ![w] = to]

\* Both outputs must be new; the capture or the decoding comes after this.
Check(w) ==
  /\ data = Free /\ voucher = Free
  /\ Step(w, "off", "checked")
  /\ UNCHANGED <<data, voucher>>

\* Faulty variant: an output that is there is rolled back like one of its own.
OpenData_RollsBackForeign(w) ==
  /\ IF data = Free THEN data' = Begun(w) /\ Step(w, "checked", "writing data")
     ELSE UNCHANGED data /\ Step(w, "checked", "rolling back")
  /\ UNCHANGED voucher

\* write_new opens with O_EXCL; the first file needs no rollback if it fails.
OpenData(w) ==
  /\ IF data = Free THEN data' = Begun(w) /\ Step(w, "checked", "writing data")
     ELSE UNCHANGED data /\ Step(w, "checked", "ended")
  /\ UNCHANGED voucher

WriteData(w) ==
  /\ \/ data' = Whole(w) /\ Step(w, "writing data", "data written")
     \/ data' = Free /\ Step(w, "writing data", "ended")
  /\ UNCHANGED voucher

OpenVoucher(w) ==
  /\ IF voucher = Free THEN voucher' = Begun(w) /\ Step(w, "data written", "writing voucher")
     ELSE UNCHANGED voucher /\ Step(w, "data written", "rolling back")
  /\ UNCHANGED data

\* A voucher that cannot be written is unlinked, then the data with it.
WriteVoucher(w) ==
  /\ \/ voucher' = Whole(w) /\ Step(w, "writing voucher", "ended")
     \/ voucher' = Free /\ Step(w, "writing voucher", "rolling back")
  /\ UNCHANGED data

\* The except clause unlinks what is in created: the data.
RollBack(w) ==
  /\ Step(w, "rolling back", "ended")
  /\ data' = Free
  /\ UNCHANGED voucher

KillWriter(w) ==
  /\ place[w] \notin {"off", "ended"}
  /\ place' = [place EXCEPT ![w] = "ended"]
  /\ UNCHANGED <<data, voucher>>

BundleNext ==
  \E w \in Writers :
    \/ Check(w) \/ OpenData(w) \/ WriteData(w)
    \/ OpenVoucher(w) \/ WriteVoucher(w) \/ RollBack(w) \/ KillWriter(w)

BundleSpec == BundleInit /\ [][BundleNext]_bundleVars

-----------------------------------------------------------------------------
(***************************************************************************)
(* A voucher never stands without its data: when it is whole, the data is  *)
(* whole and of the same run, however runs and rollbacks overlap.          *)
(***************************************************************************)
VouchedDataIsThere == \A w \in Writers : voucher = Whole(w) => data = Whole(w)
=============================================================================
