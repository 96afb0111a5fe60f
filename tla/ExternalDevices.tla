-------------------------- MODULE ExternalDevices --------------------------
(***************************************************************************)
(* External devices and the UDP forwarding of video and audio to them:     *)
(* ExternalDeviceManager (external_device.cpp), its listener in OHDVideoAir *)
(* or OHDVideoGround, and the UDPMultiForwarders those keep (udp.cpp).      *)
(*                                                                         *)
(* Every operation of the manager, the calls of its listeners included,    *)
(* runs under m_ext_devices_lock and is one step. Who discovers devices is *)
(* outside the repository (external_device.h names the listeners for USB,  *)
(* ethernet and the mavlink TCP server); a discoverer reports a device as  *)
(* lost only after it has reported it as new, and only the TCP server,     *)
(* which local programs connect to, reports addresses of this host.        *)
(***************************************************************************)
EXTENDS Integers, FiniteSets

CONSTANTS
  Ips,           \* addresses of devices
  Localhost,     \* 127.0.0.1
  SelfIps,       \* addresses of this host, Localhost among them
  Contained,     \* those that are a substring of what hostname -I prints
  ManualIps      \* NW_MANUAL_FORWARDING_IPS of the config file

ASSUME IpsAssumption ==
  /\ IsFiniteSet(Ips) /\ Localhost \in SelfIps /\ SelfIps \subseteq Ips
  /\ SelfIps \subseteq Contained /\ Contained \subseteq Ips
  /\ ManualIps \subseteq Ips \ SelfIps

VARIABLES
  Ground,        \* the listener is OHDVideoGround (else OHDVideoAir); fixed
  reported,      \* what the discoverers have reported: set of <<discoverer, ip>>
  devices,       \* m_curr_ext_devices: ip -> how it was discovered, or "none"
  count,         \* m_external_device_count, a uint8
  removed,       \* m_remove_all_called
  video,         \* the listener's object: "absent", "running", "destroyed"
  fwd            \* the object's forwarding state, see Forwarding

vars == <<Ground, reported, devices, count, removed, video, fwd>>

Discoverers == {"net", "tcp"}

\* primary and audio are the receivers of the two UDPMultiForwarders; enabled
\* is m_has_localhost_forwarding_enabled of the air unit; ub is the addresses
\* for which removeForwarder erased the end of its list, undefined behaviour;
\* late tells that a listener was called after its object was destroyed.
Forwarding == [primary: SUBSET Ips, audio: SUBSET Ips, enabled: BOOLEAN,
               ub: SUBSET Ips, late: BOOLEAN]

Connected == {ip \in Ips : devices[ip] # "none"}

-----------------------------------------------------------------------------
\* The operators below take a set of addresses: the effect of the calls for each
\* of them, which do not depend on their order.

\* UDPMultiForwarder::addForwarder: an address already served is not repeated.
addForwarder(f, ips) ==
  [f EXCEPT !.primary = @ \cup ips, !.audio = @ \cup ips]

\* UDPMultiForwarder::removeForwarder, for the video and for the audio.
removePrimary(f, ips) ==
  [f EXCEPT !.primary = @ \ ips, !.ub = @ \cup (ips \ f.primary)]

removeAudio(f, ips) ==
  [f EXCEPT !.audio = @ \ ips, !.ub = @ \cup (ips \ f.audio)]

\* OHDVideoAir::start_stop_forwarding_external_device
AirCallback(f, ips, connected) ==
  IF connected
  THEN [addForwarder(f, ips) EXCEPT !.enabled = TRUE]
  ELSE removeAudio(removePrimary([f EXCEPT !.enabled = FALSE], ips), ips)

\* ip_is_host_self asks whether the address occurs in the text of hostname -I,
\* so 10.0.0.1 is taken for this host when this host is 10.0.0.10.
ip_is_host_self(ip) == ip = Localhost \/ ip \in Contained

\* Devices, by how they were found, that are no programs on this host at the TCP
\* server: those have the localhost forwarder already.
NotSelf(ips, found) == {ip \in ips : ~(found[ip] = "tcp" /\ ip_is_host_self(ip))}

\* OHDVideoGround::start_stop_forwarding_external_device
GroundCallback(f, ips, found, connected) ==
  IF connected THEN addForwarder(f, NotSelf(ips, found))
  ELSE removePrimary(f, NotSelf(ips, found))

\* The calls of the listener for some devices.
CallListener(f, ips, found, connected) ==
  IF Ground THEN GroundCallback(f, ips, found, connected)
  ELSE AirCallback(f, ips, connected)

\* The calls of the registered listener, if there is one.
Callback(f, ips, found, connected) ==
  CASE ips = {} \/ video = "absent" -> f
    [] ips # {} /\ video = "destroyed" -> [f EXCEPT !.late = TRUE]
    [] OTHER -> CallListener(f, ips, found, connected)

-----------------------------------------------------------------------------
\* The manager's constructor: the addresses of the config file are devices.
Init ==
  /\ Ground \in BOOLEAN
  /\ reported = {}
  /\ devices = [ip \in Ips |-> IF ip \in ManualIps THEN "net" ELSE "none"]
  /\ count = Cardinality(ManualIps) % 256
  /\ removed = FALSE
  /\ video = "absent"
  /\ fwd = [primary |-> {}, audio |-> {}, enabled |-> FALSE, ub |-> {}, late |-> FALSE]

\* on_new_external_device(device, true)
OnConnected(via, ip) ==
  IF removed \/ devices[ip] # "none"
  THEN UNCHANGED <<devices, count, fwd>>
  ELSE /\ devices' = [devices EXCEPT ![ip] = via]
       /\ count' = (count + 1) % 256
       /\ fwd' = Callback(fwd, {ip}, devices', TRUE)

\* Mutant: a lost device is not looked up before it is removed.
LostUnchecked(via, ip) ==
  IF removed
  THEN UNCHANGED <<devices, count, fwd>>
  ELSE /\ devices' = [devices EXCEPT ![ip] = "none"]
       /\ count' = (count - 1) % 256
       /\ fwd' = Callback(fwd, {ip}, [devices EXCEPT ![ip] = via], FALSE)

\* on_new_external_device(device, false)
OnDisconnected(via, ip) ==
  IF removed \/ devices[ip] = "none"
  THEN UNCHANGED <<devices, count, fwd>>
  ELSE /\ devices' = [devices EXCEPT ![ip] = "none"]
       /\ count' = (count - 1) % 256
       /\ fwd' = Callback(fwd, {ip}, [devices EXCEPT ![ip] = via], FALSE)

Discovered(via, ip) ==
  /\ <<via, ip>> \notin reported
  /\ ip \in SelfIps => via = "tcp"
  /\ reported' = reported \cup {<<via, ip>>}
  /\ OnConnected(via, ip)
  /\ UNCHANGED <<removed, video>>

Lost(via, ip) ==
  /\ <<via, ip>> \in reported
  /\ reported' = reported \ {<<via, ip>>}
  /\ OnDisconnected(via, ip)
  /\ UNCHANGED <<removed, video>>

\* Mutant: a listener hears only of the devices that come later.
RegisterWithoutReplay(f) == f

\* register_listener tells a new listener of the devices already connected.
register_listener(f) ==
  IF Connected = {} THEN f ELSE CallListener(f, Connected, devices, TRUE)

\* The constructor of OHDVideoAir or OHDVideoGround.
StartVideo ==
  /\ video = "absent"
  /\ video' = "running"
  /\ fwd' = register_listener(IF Ground THEN addForwarder(fwd, {Localhost}) ELSE fwd)
  /\ UNCHANGED <<reported, devices, count, removed>>

\* remove_all, which both programs call twice before they destroy anything.
remove_all ==
  /\ video = "running"
  /\ fwd' = Callback(fwd, Connected, devices, FALSE)
  /\ devices' = [ip \in Ips |-> "none"]
  /\ count' = 0
  /\ removed' = TRUE
  /\ UNCHANGED <<reported, video>>

\* The video object is destroyed; its listener stays registered.
DestroyVideo ==
  /\ removed /\ video = "running"
  /\ video' = "destroyed"
  /\ UNCHANGED <<reported, devices, count, removed, fwd>>

Next ==
  /\ \/ \E via \in Discoverers, ip \in Ips : Discovered(via, ip) \/ Lost(via, ip)
     \/ StartVideo
     \/ remove_all
     \/ DestroyVideo
  /\ UNCHANGED Ground

Spec == Init /\ [][Next]_vars

-----------------------------------------------------------------------------
TypeOK ==
  /\ Ground \in BOOLEAN
  /\ reported \subseteq Discoverers \X Ips
  /\ devices \in [Ips -> Discoverers \cup {"none"}]
  /\ count \in 0..255
  /\ removed \in BOOLEAN
  /\ video \in {"absent", "running", "destroyed"}
  /\ fwd \in Forwarding

\* Whom the listener should serve: on the ground this host, and every device
\* but the ones the TCP server found and that are taken for this host.
ShouldReceive ==
  IF Ground THEN {Localhost} \cup NotSelf(Connected, devices) ELSE Connected

\* Addresses of others that the ground unit takes for its own.
Mistaken == IF Ground THEN Contained \ SelfIps ELSE {}

(***************************************************************************)
(* Whatever the order of discoveries, losses, the start of the video and   *)
(* remove_all, and however often two discoverers report the same address,  *)
(* the receivers of the video are the connected devices (and, on the       *)
(* ground, this host), on the air unit those of the audio too, and the     *)
(* count published is their number, in 8 bits. Only an address the ground  *)
(* unit takes for its own may be served longer, because the TCP server's   *)
(* loss of it is ignored (external_device.cpp:58-93,                       *)
(* video_ground.cpp:99-116).                                               *)
(***************************************************************************)
ReceiversAreDevices ==
  video = "running" =>
    /\ ShouldReceive \subseteq fwd.primary
    /\ fwd.primary \subseteq ShouldReceive \cup Mistaken
    /\ ~Ground => fwd.audio = Connected
    /\ count = Cardinality(Connected) % 256

(***************************************************************************)
(* removeForwarder is never asked for a receiver that is not there, which  *)
(* would erase the end of the list (udp.cpp:92-101), except for an address *)
(* the ground unit takes for its own: it is not added when the TCP server  *)
(* reports it, but removed when another discoverer loses it. No listener   *)
(* is called after its object is gone, although none is ever unregistered. *)
(***************************************************************************)
ListenersSafe == fwd.ub \subseteq Mistaken /\ ~fwd.late

(***************************************************************************)
(* Types, and the safety of the listeners' calls into the forwarders       *)
(* (udp.cpp:92-101, external_device.cpp:36-93): see the part above.        *)
(***************************************************************************)
ForwardersInv == TypeOK /\ ListenersSafe

=============================================================================
