--------------------------------- MODULE Arp ---------------------------------
(***************************************************************************)
(* uip_arp.c's table.  An entry keeps the value arptime had when it was     *)
(* last refreshed, an 8-bit number here of TimeMod values; ages are the     *)
(* differences of two such numbers as C computes them, as an int.           *)
(***************************************************************************)
EXTENDS Integers

CONSTANTS
  UIP_ARPTAB_SIZE,
  UIP_ARP_MAXAGE,
  TimeMod,          \* 256 in the code
  Addresses,        \* IP addresses
  Macs,             \* Ethernet addresses
  Nobody            \* the address of an entry that is free

ASSUME ArpAssumption ==
  /\ UIP_ARPTAB_SIZE \in Nat \ {0}
  /\ UIP_ARP_MAXAGE \in 1..TimeMod - 1 /\ TimeMod \in Nat
  /\ Nobody \notin Addresses \cup Macs

Slots == 1..UIP_ARPTAB_SIZE
Free == [ip |-> Nobody, mac |-> Nobody, time |-> 0, idle |-> 0]

\* idle is history: how often uip_arp_timer ran since the entry was refreshed.
Tables ==
  [Slots -> [ip : Addresses \cup {Nobody}, mac : Macs \cup {Nobody},
             time : 0..TimeMod - 1, idle : 0..UIP_ARP_MAXAGE]]

uip_arp_init == [i \in Slots |-> Free]

InUse(e) == e.ip # Nobody
Age(e, now) == now - e.time

Older(e) == [e EXCEPT !.idle = IF @ < UIP_ARP_MAXAGE THEN @ + 1 ELSE @]
ExpiredLate(e, now) == InUse(e) /\ Age(e, now) > UIP_ARP_MAXAGE   \* mutant
Expired(e, now) == InUse(e) /\ Age(e, now) >= UIP_ARP_MAXAGE

\* now is arptime, already advanced.
uip_arp_timer(table, now) ==
  [i \in Slots |-> IF Expired(table[i], now) THEN Free
                   ELSE IF InUse(table[i]) THEN Older(table[i]) ELSE table[i]]

Has(table, ip) == \E i \in Slots : table[i].ip = ip
Entry(table, ip) == CHOOSE i \in Slots :
  table[i].ip = ip /\ \A j \in Slots : table[j].ip = ip => i <= j

\* The first entry of the greatest age above 0; without any, entry 0.
Oldest(table, now) ==
  LET A(i) == Age(table[i], now)
  IN IF \A i \in Slots : A(i) <= 0 THEN 1
     ELSE CHOOSE i \in Slots : \A j \in Slots : A(j) < A(i) \/ (A(j) = A(i) /\ i <= j)

uip_arp_update(table, now, ip, mac) ==
  LET i == IF Has(table, ip) THEN Entry(table, ip)
           ELSE IF Has(table, Nobody) THEN Entry(table, Nobody)
           ELSE Oldest(table, now)
  IN [table EXCEPT ![i] = [ip |-> ip, mac |-> mac, time |-> now, idle |-> 0]]

=============================================================================
