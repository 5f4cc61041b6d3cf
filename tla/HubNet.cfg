\* One router, one other peer, one name in the resolver's table, the ARP clock of three
\* values; the link, the power, the router or the server fails at any moment.
CONSTANTS
  UIP_ARPTAB_SIZE = 1
  UIP_ARP_MAXAGE = 2
  TimeMod = 3
  Router = router
  Peer = peer
  Addresses = {router, peer}
  PeerMac = mp
  Macs = {m1, m2, mp}
  Nobody = nobody
  RESOLV_ENTRIES = 1
  MAX_RETRIES = 1
  SeqnoMod = 1
  UIP_UDP_CONNS = 2
  DHCP_TIMEOUT_S = 2
  ARP_TIMEOUT_S = 0
  UIP_MAXSYNRTX = 2
  MaxFails = 1
SPECIFICATION FairSpec
INVARIANTS TypeOK ConnsApart NeverStranded ArpAges
PROPERTIES ImplementsNetStatus Reaches
