-------------------------------- MODULE Subnet --------------------------------
(***************************************************************************)
(* The address arithmetic of the sandbox network: Ipv4Cidr and             *)
(* SandboxConfig::network_settings. Addresses have Width bits (32 in the   *)
(* code); the masks are computed as the code does, with the shift of a     *)
(* fixed-width word and a bitwise "and". Reading dotted addresses is left  *)
(* to the standard library: a field that does not parse is FALSE below.    *)
(***************************************************************************)
EXTENDS Integers, FiniteSetsExt

CONSTANTS Width,     \* bits of an address
          Bridges    \* valid interface names: non-empty, short, no blank

ASSUME WidthAssumption == Width \in Nat /\ Width >= 2

Pow2[n \in Nat] == IF n = 0 THEN 1 ELSE 2 * Pow2[n - 1]

Word == 0 .. Pow2[Width] - 1

(* A configured network; `parses` stands for the bridge name's rules and   *)
(* the texts that are not addresses, `prefix` may be one too large.        *)
RawSettings ==
  [bridge : Bridges, parses : BOOLEAN,
   subnet : [address : Word, prefix : 0 .. Width + 1],
   gateway : Word, address : Word]

Bit(w, i) == (w \div Pow2[i]) % 2
BitAnd(v, w) ==
  CHOOSE r \in Word : \A i \in 0 .. Width - 1 : Bit(r, i) = Bit(v, i) * Bit(w, i)

(* Ipv4Cidr::mask and prefix_mask of the rules; the shift by the whole     *)
(* width, which the machine does not define, is the case kept apart.       *)
prefix_mask(prefix) ==
  IF prefix = 0 THEN 0
  ELSE ((Pow2[Width] - 1) * Pow2[Width - prefix]) % Pow2[Width]

network(subnet) == BitAnd(subnet.address, prefix_mask(subnet.prefix))

contains(subnet, a) == BitAnd(a, prefix_mask(subnet.prefix)) = network(subnet)

(* network | !mask: the two have no bit in common. *)
broadcast(subnet) ==
  network(subnet) + (Pow2[Width] - 1 - prefix_mask(subnet.prefix))

(* A slip: the point-to-point prefixes lose their two addresses too. *)
MutAccepts(raw) ==
  LET s == raw.subnet IN
  /\ raw.parses
  /\ s.prefix <= Width
  /\ s.address = network(s)
  /\ contains(s, raw.gateway) /\ contains(s, raw.address)
  /\ raw.gateway # raw.address
  /\ s.prefix < Width =>
       {raw.gateway, raw.address} \cap {network(s), broadcast(s)} = {}

(* network_settings returns Ok. *)
network_settings_ok(raw) ==
  LET s == raw.subnet IN
  /\ raw.parses
  /\ s.prefix <= Width
  /\ s.address = network(s)
  /\ contains(s, raw.gateway)
  /\ contains(s, raw.address)
  /\ raw.gateway # raw.address
  /\ s.prefix <= Width - 2 =>
       {raw.gateway, raw.address} \cap {network(s), broadcast(s)} = {}

-----------------------------------------------------------------------------
(* Reference definitions, by blocks of consecutive addresses.              *)
Block(subnet) ==
  {a \in Word : a \div Pow2[Width - subnet.prefix]
                  = subnet.address \div Pow2[Width - subnet.prefix]}

Usable(subnet) ==
  LET b == Block(subnet) IN
  IF Cardinality(b) >= 4 THEN b \ {Min(b), Max(b)} ELSE b

(* What README.md says of the fields: the subnet is a block given by its   *)
(* first address, gateway and container have two different usable          *)
(* addresses of it.                                                        *)
WellFormed(raw) ==
  /\ raw.parses
  /\ raw.subnet.prefix <= Width
  /\ raw.subnet.address = Min(Block(raw.subnet))
  /\ {raw.gateway, raw.address} \subseteq Usable(raw.subnet)
  /\ raw.gateway # raw.address
=============================================================================
