-------------------------------- MODULE HwQual --------------------------------
(***************************************************************************)
(* The verdict an exit passes on its own hardware (`ExitHwQual` in         *)
(* src/dto.rs).  A bench carries the measured fields the verdict reads:    *)
(* throughput and rates are in the code's units divided by a constant (the *)
(* NIC in Mbit/s over 100, the packet rate over 10_000), throughput in     *)
(* tenths of Gbit/s, so that the thresholds and the order are the code's.  *)
(***************************************************************************)
EXTENDS Integers

MIN_UDP_PPS  == 12
MIN_NIC_MBPS == 10
MIN_CORES    == 2

\* The measured fields.
IsBench(b) ==
  /\ b.aes_ni \in BOOLEAN
  /\ {b.nic_speed, b.cpu_cores, b.udp_pps, b.udp_gbps} \subseteq Nat

\* The reasons for NO_GO, in the code a list joined into one text.
Reasons(b) ==
  {r \in {"no-aes-ni", "slow-nic", "few-cores", "slow-datapath"} :
     \/ r = "no-aes-ni" /\ ~b.aes_ni
     \/ r = "slow-nic" /\ b.nic_speed < MIN_NIC_MBPS
     \/ r = "few-cores" /\ b.cpu_cores < MIN_CORES
     \/ r = "slow-datapath" /\ b.udp_pps < MIN_UDP_PPS}

IsGo(b) == Reasons(b) = {}

CapacityClass(b) ==
  IF ~IsGo(b) THEN "unfit"
  ELSE IF b.nic_speed >= 100 /\ b.udp_pps >= 25 THEN "high"
  ELSE IF b.nic_speed >= 25 THEN "standard"
  ELSE "entry"

\* In tenths of Gbit/s: the doubled single core, capped by the NIC.
CleanTunnel(b) ==
  IF ~IsGo(b) THEN 0
  ELSE IF 2 * b.udp_gbps < b.nic_speed THEN 2 * b.udp_gbps
  ELSE b.nic_speed

\* `ExitHwQual::evaluate`: whatever verdict the record held is replaced.
Evaluate(b) ==
  [go |-> IsGo(b), class |-> CapacityClass(b), est |-> CleanTunnel(b),
   reasons |-> Reasons(b), bench |-> b]

-----------------------------------------------------------------------------

\* b is hardware at least as good as c.
AtLeast(b, c) ==
  /\ c.aes_ni => b.aes_ni
  /\ b.nic_speed >= c.nic_speed /\ b.cpu_cores >= c.cpu_cores
  /\ b.udp_pps >= c.udp_pps /\ b.udp_gbps >= c.udp_gbps

Rank(class) ==
  CASE class = "unfit" -> 0 [] class = "entry" -> 1
    [] class = "standard" -> 2 [] class = "high" -> 3
=============================================================================
