----------------------- MODULE DevicesSettingsProofs ------------------------
(***************************************************************************)
(* Proofs about the two small components that callbacks of other parts     *)
(* drive: the forwarding to external devices, for any addresses and any    *)
(* number of discoveries, and the settings file, for any fields and any    *)
(* number of threads that save.                                            *)
(***************************************************************************)
EXTENDS ExternalDevices, PersistentSettings, FiniteSetTheorems, TLAPS

-----------------------------------------------------------------------------
(* The external devices. Neither property is inductive: whom a loss takes  *)
(* from the receivers depends on who has reported the device, and on what  *)
(* the forwarders serve while the listener is registered.                  *)

\* Only the TCP server knows of the programs on this host.
ReportsOK ==
    \A ip \in SelfIps : <<"net", ip>> \notin reported /\ devices[ip] # "net"

\* Whom the ground unit serves. A device whose address is taken for one of the
\* host's may be served or not if the TCP server found it.
GroundServes ==
    /\ Localhost \in fwd.primary
    /\ \A ip \in SelfIps \ {Localhost} : ip \notin fwd.primary
    /\ \A ip \in Ips \ Contained : ip \in fwd.primary <=> devices[ip] # "none"
    /\ \A ip \in Ips : devices[ip] = "net" => ip \in fwd.primary

\* Whom the air unit serves.
AirServes ==
    fwd.primary = Connected /\ fwd.audio = Connected /\ fwd.ub = {}

Serves == IF Ground THEN GroundServes ELSE AirServes

\* Before the video nothing is served; it is destroyed only without devices.
PlacesOK ==
    /\ video = "absent" =>
           ~removed /\ fwd.primary = {} /\ fwd.audio = {} /\ fwd.ub = {}
    /\ video = "destroyed" => removed
    /\ removed => Connected = {}

Counted == count = Cardinality(Connected) % 256

DevicesInv ==
    /\ TypeOK /\ ReportsOK /\ PlacesOK /\ ListenersSafe /\ Counted
    /\ video = "running" => Serves

\* The devices connected are finitely many addresses.
LEMMA ConnectedFinite ==
    IsFiniteSet(Connected) /\ Cardinality(Connected) \in Nat
<1>1. IsFiniteSet(Connected)
  BY IpsAssumption, FS_Subset, Connected \subseteq Ips DEF Connected
<1> QED
  BY <1>1, FS_CardinalityType

\* The 8 bits follow the number when a device comes or goes.
LEMMA CountWraps ==
    ASSUME NEW k \in Nat
    PROVE  /\ k % 256 \in 0 .. 255
           /\ ((k % 256) + 1) % 256 = (k + 1) % 256
           /\ k > 0 => ((k % 256) - 1) % 256 = (k - 1) % 256
  OBVIOUS

\* What the calls of the listener keep: the types, and that none is late.
LEMMA CallListenerTypes ==
    ASSUME NEW f \in Forwarding, NEW ips \in SUBSET Ips, NEW found,
           NEW connected \in BOOLEAN
    PROVE  /\ CallListener(f, ips, found, connected) \in Forwarding
           /\ CallListener(f, ips, found, connected).late = f.late
<1>0. NotSelf(ips, found) \in SUBSET Ips
  BY DEF NotSelf
<1>1. ASSUME NEW is \in SUBSET Ips
      PROVE  /\ addForwarder(f, is) \in Forwarding
             /\ addForwarder(f, is).late = f.late
             /\ removePrimary(f, is) \in Forwarding
             /\ removePrimary(f, is).late = f.late
  BY DEF addForwarder, removePrimary, Forwarding
<1>2. GroundCallback(f, ips, found, connected) \in Forwarding
      /\ GroundCallback(f, ips, found, connected).late = f.late
  BY <1>0, <1>1 DEF GroundCallback
<1>3. AirCallback(f, ips, connected) \in Forwarding
      /\ AirCallback(f, ips, connected).late = f.late
  BY DEF AirCallback, addForwarder, removePrimary, removeAudio, Forwarding
<1> QED
  BY <1>2, <1>3 DEF CallListener

\* What a call that connects devices does to the receivers on the ground.
LEMMA GroundAdds ==
    ASSUME NEW f \in Forwarding, NEW ips \in SUBSET Ips, NEW found, Ground
    PROVE  /\ CallListener(f, ips, found, TRUE).primary
                  = f.primary \cup NotSelf(ips, found)
           /\ CallListener(f, ips, found, TRUE).ub = f.ub
  BY DEF CallListener, GroundCallback, addForwarder, Forwarding

\* ... and one that disconnects them.
LEMMA GroundRemoves ==
    ASSUME NEW f \in Forwarding, NEW ips \in SUBSET Ips, NEW found, Ground
    PROVE  /\ CallListener(f, ips, found, FALSE).primary
                  = f.primary \ NotSelf(ips, found)
           /\ CallListener(f, ips, found, FALSE).ub
                  = f.ub \cup (NotSelf(ips, found) \ f.primary)
  BY DEF CallListener, GroundCallback, removePrimary, Forwarding

\* The same on the air unit, whose listener does not tell devices apart.
LEMMA AirAdds ==
    ASSUME NEW f \in Forwarding, NEW ips \in SUBSET Ips, NEW found, ~Ground
    PROVE  /\ CallListener(f, ips, found, TRUE).primary = f.primary \cup ips
           /\ CallListener(f, ips, found, TRUE).audio = f.audio \cup ips
           /\ CallListener(f, ips, found, TRUE).ub = f.ub
  BY DEF CallListener, AirCallback, addForwarder, Forwarding

\* A loss there takes the device from both lists.
LEMMA AirRemoves ==
    ASSUME NEW f \in Forwarding, NEW ips \in SUBSET Ips, NEW found, ~Ground,
           \A i \in ips : i \in f.primary /\ i \in f.audio
    PROVE  /\ CallListener(f, ips, found, FALSE).primary = f.primary \ ips
           /\ CallListener(f, ips, found, FALSE).audio = f.audio \ ips
           /\ CallListener(f, ips, found, FALSE).ub = f.ub
<1> DEFINE h == removePrimary([f EXCEPT !.enabled = FALSE], ips)
<1>1. /\ h \in Forwarding
      /\ h.primary = f.primary \ ips /\ h.audio = f.audio /\ h.ub = f.ub
  BY DEF removePrimary, Forwarding
<1>2. CallListener(f, ips, found, FALSE) = removeAudio(h, ips)
  BY DEF CallListener, AirCallback
<1> HIDE DEF h
<1> QED
  BY <1>1, <1>2 DEF removeAudio, Forwarding

\* At the start only the configured addresses are devices.
LEMMA DevicesInit == Init => DevicesInv
<1> SUFFICES ASSUME Init PROVE DevicesInv
  OBVIOUS
<1>1. Connected = ManualIps /\ ManualIps \subseteq Ips
  BY IpsAssumption DEF Init, Connected
<1>2. Counted
  BY <1>1 DEF Init, Counted
<1>3. count \in 0 .. 255
  BY <1>2, ConnectedFinite, CountWraps DEF Counted
<1>4. TypeOK
  BY <1>3 DEF Init, TypeOK, Discoverers, Forwarding
<1>5. ReportsOK
  BY IpsAssumption DEF Init, ReportsOK
<1>6. PlacesOK /\ ListenersSafe /\ video # "running"
  BY DEF Init, PlacesOK, ListenersSafe
<1> QED
  BY <1>2, <1>4, <1>5, <1>6 DEF DevicesInv

\* The count follows a device that comes ...
LEMMA CountUp ==
    ASSUME TypeOK, Counted, NEW via \in Discoverers, NEW ip \in Ips,
           devices[ip] = "none", devices' = [devices EXCEPT ![ip] = via],
           count' = (count + 1) % 256
    PROVE  /\ Connected' = Connected \cup {ip}
           /\ Counted' /\ count' \in 0 .. 255
<1>1. Connected' = Connected \cup {ip} /\ ip \notin Connected
  BY DEF TypeOK, Connected, Discoverers
<1>2. Cardinality(Connected') = Cardinality(Connected) + 1
  BY <1>1, ConnectedFinite, FS_AddElement
<1>3. ((Cardinality(Connected) % 256) + 1) % 256
          = (Cardinality(Connected) + 1) % 256
      /\ (Cardinality(Connected) + 1) % 256 \in 0 .. 255
  <2>1. Cardinality(Connected) + 1 \in Nat
    BY ConnectedFinite
  <2> QED
    BY <2>1, ConnectedFinite, CountWraps
<1> QED
  BY <1>1, <1>2, <1>3 DEF Counted

\* ... and one that leaves.
LEMMA CountDown ==
    ASSUME TypeOK, Counted, NEW ip \in Ips,
           devices[ip] # "none", devices' = [devices EXCEPT ![ip] = "none"],
           count' = (count - 1) % 256
    PROVE  /\ Connected' = Connected \ {ip}
           /\ Counted' /\ count' \in 0 .. 255
<1>1. Connected' = Connected \ {ip} /\ ip \in Connected
  BY DEF TypeOK, Connected, Discoverers
<1>2. Cardinality(Connected') = Cardinality(Connected) - 1
      /\ Cardinality(Connected) > 0 /\ Cardinality(Connected') \in Nat
  <2>1. Cardinality(Connected \ {ip}) = Cardinality(Connected) - 1
        /\ IsFiniteSet(Connected \ {ip})
    BY <1>1, ConnectedFinite, FS_RemoveElement
  <2>2. Cardinality(Connected \ {ip}) \in Nat
    BY <2>1, FS_CardinalityType
  <2> QED
    BY <1>1, <2>1, <2>2, ConnectedFinite
<1>3. ((Cardinality(Connected) % 256) - 1) % 256
          = (Cardinality(Connected) - 1) % 256
      /\ (Cardinality(Connected) - 1) % 256 \in 0 .. 255
  <2>1. Cardinality(Connected) - 1 \in Nat
    BY <1>2, ConnectedFinite
  <2> QED
    BY <1>2, <2>1, ConnectedFinite, CountWraps
<1> QED
  BY <1>1, <1>2, <1>3 DEF Counted

\* A device that is reported, known or not.
LEMMA DiscoveredStep ==
    ASSUME DevicesInv, NEW via \in Discoverers, NEW ip \in Ips,
           Discovered(via, ip), Ground' = Ground
    PROVE  DevicesInv'
<1> USE DEF DevicesInv
<1>1. /\ reported' = reported \cup {<<via, ip>>}
      /\ ip \in SelfIps => via = "tcp"
      /\ removed' = removed /\ video' = video /\ OnConnected(via, ip)
  BY DEF Discovered
<1>2. reported' \subseteq Discoverers \X Ips
  BY <1>1 DEF TypeOK
<1>3. CASE removed \/ devices[ip] # "none"
  <2>1. UNCHANGED <<devices, count, fwd>>
    BY <1>1, <1>3 DEF OnConnected
  <2>2. Connected' = Connected
    BY <2>1 DEF Connected
  <2>3. ReportsOK'
    BY <1>1, <2>1 DEF ReportsOK
  <2>4. Serves' <=> Serves
    BY <2>1, <2>2 DEF Serves, GroundServes, AirServes
  <2>5. TypeOK' /\ PlacesOK' /\ ListenersSafe' /\ Counted'
    BY <1>1, <1>2, <2>1, <2>2
       DEF TypeOK, PlacesOK, ListenersSafe, Mistaken, Counted
  <2> QED
    BY <1>1, <2>3, <2>4, <2>5
<1>4. CASE ~removed /\ devices[ip] = "none"
  <2>1. /\ devices' = [devices EXCEPT ![ip] = via]
        /\ count' = (count + 1) % 256
        /\ fwd' = Callback(fwd, {ip}, devices', TRUE)
    BY <1>1, <1>4 DEF OnConnected
  <2>2. Connected' = Connected \cup {ip} /\ Counted' /\ count' \in 0 .. 255
    BY <1>4, <2>1, CountUp
  <2>3. devices' \in [Ips -> Discoverers \cup {"none"}] /\ devices'[ip] = via
    BY <2>1 DEF TypeOK
  <2>4. ReportsOK'
    <3>1. ASSUME NEW i \in SelfIps
          PROVE  <<"net", i>> \notin reported' /\ devices'[i] # "net"
      <4>1. i \in Ips /\ <<"net", i>> \notin reported /\ devices[i] # "net"
        BY IpsAssumption DEF ReportsOK
      <4> QED
        BY <1>1, <2>1, <2>3, <4>1 DEF TypeOK
    <3> QED
      BY <3>1 DEF ReportsOK
  <2>5. CASE video = "absent"
    <3>1. fwd' = fwd
      BY <2>1, <2>5 DEF Callback
    <3>2. TypeOK' /\ PlacesOK' /\ ListenersSafe'
      BY <1>1, <1>2, <1>4, <2>2, <2>3, <2>5, <3>1
         DEF TypeOK, PlacesOK, ListenersSafe, Mistaken
    <3> QED
      BY <1>1, <2>2, <2>4, <2>5, <3>2
  <2>6. CASE video = "running"
    <3>1. fwd' = CallListener(fwd, {ip}, devices', TRUE)
      BY <2>1, <2>6 DEF Callback
    <3>2. fwd' \in Forwarding /\ fwd'.late = fwd.late /\ fwd \in Forwarding
      BY <3>1, CallListenerTypes DEF TypeOK
    <3>3. TypeOK'
      BY <1>1, <1>2, <2>2, <2>3, <3>2 DEF TypeOK
    <3>4. fwd'.ub = fwd.ub /\ Serves'
      <4>1. CASE Ground
        <5>1. /\ fwd'.primary = fwd.primary \cup NotSelf({ip}, devices')
              /\ fwd'.ub = fwd.ub
          BY <3>1, <3>2, <4>1, GroundAdds
        <5>2. GroundServes
          BY <2>6, <4>1 DEF Serves
        <5>3. NotSelf({ip}, devices') =
                  IF via = "tcp" /\ ip_is_host_self(ip) THEN {} ELSE {ip}
          BY <2>3 DEF NotSelf
        <5>4. ASSUME NEW i \in SelfIps \ {Localhost}
              PROVE  i \notin fwd'.primary
          <6>1. i \in Contained
            BY IpsAssumption
          <6> QED
            BY <1>1, <5>1, <5>2, <5>3, <6>1
               DEF GroundServes, ip_is_host_self
        <5>5. ASSUME NEW i \in Ips \ Contained
              PROVE  i \in fwd'.primary <=> devices'[i] # "none"
          <6>1. i # Localhost
            BY IpsAssumption
          <6>2. CASE i = ip
            BY <2>3, <5>1, <5>3, <6>1, <6>2
               DEF ip_is_host_self, Discoverers
          <6>3. CASE i # ip
            BY <2>1, <5>1, <5>2, <5>3, <6>3 DEF GroundServes, TypeOK
          <6> QED
            BY <6>2, <6>3
        <5>6. ASSUME NEW i \in Ips, devices'[i] = "net"
              PROVE  i \in fwd'.primary
          <6>1. CASE i = ip
            BY <2>3, <5>1, <5>3, <5>6, <6>1
          <6>2. CASE i # ip
            BY <2>1, <5>1, <5>2, <5>6, <6>2 DEF GroundServes, TypeOK
          <6> QED
            BY <6>1, <6>2
        <5>7. Localhost \in fwd'.primary
          BY <5>1, <5>2 DEF GroundServes
        <5> QED
          BY <4>1, <5>1, <5>4, <5>5, <5>6, <5>7 DEF Serves, GroundServes
      <4>2. CASE ~Ground
        <5>1. /\ fwd'.primary = fwd.primary \cup {ip}
              /\ fwd'.audio = fwd.audio \cup {ip} /\ fwd'.ub = fwd.ub
          BY <3>1, <3>2, <4>2, AirAdds
        <5>2. AirServes
          BY <2>6, <4>2 DEF Serves
        <5>3. AirServes'
          BY <2>2, <5>1, <5>2 DEF AirServes
        <5> QED
          BY <4>2, <5>1, <5>3 DEF Serves
      <4> QED
        BY <4>1, <4>2
    <3>5. PlacesOK' /\ ListenersSafe'
      BY <1>1, <1>4, <2>6, <3>2, <3>4 DEF PlacesOK, ListenersSafe, Mistaken
    <3> QED
      BY <2>2, <2>4, <3>3, <3>4, <3>5
  <2> QED
    BY <1>4, <2>5, <2>6 DEF TypeOK, PlacesOK
<1> QED
  BY <1>3, <1>4

\* A device that a discoverer loses; another may still have reported it, or
\* have lost it already.
LEMMA LostStep ==
    ASSUME DevicesInv, NEW via \in Discoverers, NEW ip \in Ips,
           Lost(via, ip), Ground' = Ground
    PROVE  DevicesInv'
<1> USE DEF DevicesInv
<1>1. /\ <<via, ip>> \in reported
      /\ reported' = reported \ {<<via, ip>>}
      /\ removed' = removed /\ video' = video /\ OnDisconnected(via, ip)
  BY DEF Lost
<1>2. reported' \subseteq Discoverers \X Ips
  BY <1>1 DEF TypeOK
<1>3. ip \in SelfIps => via = "tcp"
  BY <1>1 DEF ReportsOK, Discoverers
<1>4. CASE removed \/ devices[ip] = "none"
  <2>1. UNCHANGED <<devices, count, fwd>>
    BY <1>1, <1>4 DEF OnDisconnected
  <2>2. Connected' = Connected
    BY <2>1 DEF Connected
  <2>3. ReportsOK'
    BY <1>1, <2>1 DEF ReportsOK
  <2>4. Serves' <=> Serves
    BY <2>1, <2>2 DEF Serves, GroundServes, AirServes
  <2>5. TypeOK' /\ PlacesOK' /\ ListenersSafe' /\ Counted'
    BY <1>1, <1>2, <2>1, <2>2
       DEF TypeOK, PlacesOK, ListenersSafe, Mistaken, Counted
  <2> QED
    BY <1>1, <2>3, <2>4, <2>5
<1>5. CASE ~removed /\ devices[ip] # "none"
  <2> DEFINE lost == [devices EXCEPT ![ip] = via]
  <2>1. /\ devices' = [devices EXCEPT ![ip] = "none"]
        /\ count' = (count - 1) % 256
        /\ fwd' = Callback(fwd, {ip}, lost, FALSE)
    BY <1>1, <1>5 DEF OnDisconnected
  <2>2. Connected' = Connected \ {ip} /\ Counted' /\ count' \in 0 .. 255
    BY <1>5, <2>1, CountDown
  <2>3. /\ devices' \in [Ips -> Discoverers \cup {"none"}]
        /\ devices'[ip] = "none" /\ lost[ip] = via
    BY <2>1 DEF TypeOK
  <2> HIDE DEF lost
  <2>4. ReportsOK'
    <3>1. ASSUME NEW i \in SelfIps
          PROVE  <<"net", i>> \notin reported' /\ devices'[i] # "net"
      <4>1. i \in Ips /\ <<"net", i>> \notin reported /\ devices[i] # "net"
        BY IpsAssumption DEF ReportsOK
      <4> QED
        BY <1>1, <2>1, <2>3, <4>1 DEF TypeOK
    <3> QED
      BY <3>1 DEF ReportsOK
  <2>5. CASE video = "absent"
    <3>1. fwd' = fwd
      BY <2>1, <2>5 DEF Callback
    <3>2. TypeOK' /\ PlacesOK' /\ ListenersSafe'
      BY <1>1, <1>2, <1>5, <2>2, <2>3, <2>5, <3>1
         DEF TypeOK, PlacesOK, ListenersSafe, Mistaken
    <3> QED
      BY <1>1, <2>2, <2>4, <2>5, <3>2
  <2>6. CASE video = "running"
    <3>1. fwd' = CallListener(fwd, {ip}, lost, FALSE)
      BY <2>1, <2>6 DEF Callback
    <3>2. fwd' \in Forwarding /\ fwd'.late = fwd.late /\ fwd \in Forwarding
      BY <3>1, CallListenerTypes DEF TypeOK
    <3>3. TypeOK'
      BY <1>1, <1>2, <2>2, <2>3, <3>2 DEF TypeOK
    <3>4. fwd'.ub \subseteq Mistaken /\ Serves'
      <4>1. CASE Ground
        <5>1. /\ fwd'.primary = fwd.primary \ NotSelf({ip}, lost)
              /\ fwd'.ub = fwd.ub \cup (NotSelf({ip}, lost) \ fwd.primary)
          <6>1. {ip} \in SUBSET Ips
            OBVIOUS
          <6> QED
            BY <3>1, <3>2, <4>1, <6>1, GroundRemoves
        <5>2. GroundServes /\ fwd.ub \subseteq Mistaken
          BY <2>6, <4>1 DEF Serves, ListenersSafe
        <5>3. NotSelf({ip}, lost) =
                  IF via = "tcp" /\ ip_is_host_self(ip) THEN {} ELSE {ip}
          BY <2>3 DEF NotSelf
        <5>4. CASE NotSelf({ip}, lost) = {}
          <6>1. ip \in Contained
            BY <5>3, <5>4, IpsAssumption DEF ip_is_host_self
          <6>2. fwd'.primary = fwd.primary /\ fwd'.ub = fwd.ub
            BY <5>1, <5>4
          <6>3. ASSUME NEW i \in Ips \ Contained
                PROVE  i \in fwd'.primary <=> devices'[i] # "none"
            BY <2>1, <5>2, <6>1, <6>2 DEF GroundServes, TypeOK
          <6>4. ASSUME NEW i \in Ips, devices'[i] = "net"
                PROVE  i \in fwd'.primary
            BY <2>1, <5>2, <6>2, <6>4 DEF GroundServes, TypeOK
          <6> QED
            BY <4>1, <5>2, <6>2, <6>3, <6>4 DEF Serves, GroundServes
        <5>5. CASE NotSelf({ip}, lost) = {ip}
          <6>1. ip \notin SelfIps
            BY <1>3, <5>3, <5>5, IpsAssumption DEF ip_is_host_self
          <6>2. fwd'.ub \subseteq Mistaken
            <7>1. CASE ip \in Contained
              BY <4>1, <5>1, <5>2, <5>5, <6>1, <7>1 DEF Mistaken
            <7>2. CASE ip \notin Contained
              BY <1>5, <5>1, <5>2, <5>5, <7>2 DEF GroundServes
            <7> QED
              BY <7>1, <7>2
          <6>3. Localhost \in fwd'.primary
            BY <5>1, <5>2, <5>5, <6>1, IpsAssumption DEF GroundServes
          <6>4. ASSUME NEW i \in Ips \ Contained
                PROVE  i \in fwd'.primary <=> devices'[i] # "none"
            BY <2>1, <2>3, <5>1, <5>2, <5>5 DEF GroundServes, TypeOK
          <6>5. ASSUME NEW i \in Ips, devices'[i] = "net"
                PROVE  i \in fwd'.primary
            BY <2>1, <2>3, <5>1, <5>2, <5>5, <6>5 DEF GroundServes, TypeOK
          <6>6. \A i \in SelfIps \ {Localhost} : i \notin fwd'.primary
            BY <5>1, <5>2 DEF GroundServes
          <6> QED
            BY <4>1, <6>2, <6>3, <6>4, <6>5, <6>6 DEF Serves, GroundServes
        <5> QED
          BY <5>3, <5>4, <5>5
      <4>2. CASE ~Ground
        <5>1. AirServes /\ fwd.ub \subseteq Mistaken
          BY <2>6, <4>2 DEF Serves, ListenersSafe
        <5>2. \A i \in {ip} : i \in fwd.primary /\ i \in fwd.audio
          BY <1>5, <5>1 DEF AirServes, Connected
        <5>3. /\ fwd'.primary = fwd.primary \ {ip}
              /\ fwd'.audio = fwd.audio \ {ip} /\ fwd'.ub = fwd.ub
          <6> DEFINE one == {ip}
          <6>1. one \in SUBSET Ips /\ fwd' = CallListener(fwd, one, lost, FALSE)
                /\ \A i \in one : i \in fwd.primary /\ i \in fwd.audio
            BY <3>1, <5>2
          <6> HIDE DEF one
          <6>2. fwd \in Forwarding
            BY <3>2
          <6>3. /\ CallListener(fwd, one, lost, FALSE).primary = fwd.primary \ one
                /\ CallListener(fwd, one, lost, FALSE).audio = fwd.audio \ one
                /\ CallListener(fwd, one, lost, FALSE).ub = fwd.ub
            BY <4>2, <6>1, <6>2, AirRemoves
          <6> QED
            BY <6>1, <6>3 DEF one
        <5>4. AirServes'
          BY <2>2, <5>1, <5>3 DEF AirServes
        <5> QED
          BY <4>2, <5>1, <5>3, <5>4 DEF Serves
      <4> QED
        BY <4>1, <4>2
    <3>5. PlacesOK' /\ ListenersSafe'
      BY <1>1, <1>5, <2>6, <3>2, <3>4 DEF PlacesOK, ListenersSafe, Mistaken
    <3> QED
      BY <2>2, <2>4, <3>3, <3>4, <3>5
  <2> QED
    BY <1>5, <2>5, <2>6 DEF TypeOK, PlacesOK
<1> QED
  BY <1>4, <1>5

\* The video object comes: it hears of the devices that are connected already.
LEMMA StartVideoStep ==
    ASSUME DevicesInv, StartVideo, Ground' = Ground
    PROVE  DevicesInv'
<1> USE DEF DevicesInv
<1> DEFINE start == IF Ground THEN addForwarder(fwd, {Localhost}) ELSE fwd
<1>1. /\ video = "absent" /\ video' = "running"
      /\ fwd' = register_listener(start)
      /\ UNCHANGED <<reported, devices, count, removed>>
  BY DEF StartVideo
<1>2. /\ fwd \in Forwarding /\ ~fwd.late
      /\ fwd.primary = {} /\ fwd.audio = {} /\ fwd.ub = {}
  BY <1>1 DEF TypeOK, ListenersSafe, PlacesOK
<1>3. Connected' = Connected /\ Connected \in SUBSET Ips
  BY <1>1 DEF Connected
<1>4. /\ start \in Forwarding /\ ~start.late /\ start.ub = {}
      /\ start.primary = IF Ground THEN {Localhost} ELSE {}
      /\ ~Ground => start.audio = {}
  BY <1>2, IpsAssumption DEF addForwarder, Forwarding
<1> HIDE DEF start
<1>5. fwd' \in Forwarding /\ ~fwd'.late
  BY <1>1, <1>3, <1>4, CallListenerTypes DEF register_listener
<1>6. Serves' /\ fwd'.ub = {}
  <2>1. CASE Ground
    <3>1. /\ fwd'.primary = {Localhost} \cup NotSelf(Connected, devices)
          /\ fwd'.ub = {}
      <4>1. CASE Connected = {}
        BY <1>1, <1>4, <2>1, <4>1 DEF register_listener, NotSelf
      <4>2. CASE Connected # {}
        <5>1. fwd' = CallListener(start, Connected, devices, TRUE)
          BY <1>1, <4>2 DEF register_listener
        <5> QED
          BY <1>3, <1>4, <2>1, <5>1, GroundAdds
      <4> QED
        BY <4>1, <4>2
    <3>2. ASSUME NEW i \in SelfIps \ {Localhost}
          PROVE  i \notin fwd'.primary
      <4>1. i \in Contained /\ i \in Ips /\ devices[i] # "net"
        BY IpsAssumption DEF ReportsOK
      <4>2. i \in Connected => devices[i] = "tcp"
        BY <4>1 DEF TypeOK, Discoverers, Connected
      <4> QED
        BY <3>1, <4>1, <4>2 DEF NotSelf, ip_is_host_self
    <3>3. ASSUME NEW i \in Ips \ Contained
          PROVE  i \in fwd'.primary <=> devices[i] # "none"
      <4>1. i # Localhost
        BY IpsAssumption
      <4> QED
        BY <3>1, <4>1 DEF NotSelf, ip_is_host_self, Connected
    <3>4. ASSUME NEW i \in Ips, devices[i] = "net"
          PROVE  i \in fwd'.primary
      BY <3>1, <3>4 DEF NotSelf, Connected
    <3> QED
      BY <1>1, <2>1, <3>1, <3>2, <3>3, <3>4 DEF Serves, GroundServes
  <2>2. CASE ~Ground
    <3>1. /\ fwd'.primary = Connected /\ fwd'.audio = Connected
          /\ fwd'.ub = {}
      <4>1. CASE Connected = {}
        BY <1>1, <1>4, <2>2, <4>1 DEF register_listener
      <4>2. CASE Connected # {}
        <5>1. fwd' = CallListener(start, Connected, devices, TRUE)
          BY <1>1, <4>2 DEF register_listener
        <5> QED
          <6>1. /\ fwd'.primary = start.primary \cup Connected
                /\ fwd'.audio = start.audio \cup Connected
                /\ fwd'.ub = start.ub
            BY <1>3, <1>4, <2>2, <5>1, AirAdds
          <6> QED
            BY <1>4, <2>2, <6>1
      <4> QED
        BY <4>1, <4>2
    <3> QED
      BY <1>3, <2>2, <3>1 DEF Serves, AirServes
  <2> QED
    BY <2>1, <2>2
<1>7. TypeOK' /\ ReportsOK'
  BY <1>1, <1>5 DEF TypeOK, ReportsOK
<1>8. PlacesOK' /\ ListenersSafe' /\ Counted'
  BY <1>1, <1>3, <1>5, <1>6 DEF PlacesOK, ListenersSafe, Counted
<1> QED
  BY <1>6, <1>7, <1>8

\* At the end of the program every device goes, the configured ones included.
LEMMA RemoveAllStep ==
    ASSUME DevicesInv, remove_all, Ground' = Ground
    PROVE  DevicesInv'
<1> USE DEF DevicesInv
<1>1. /\ video = "running" /\ video' = video /\ removed' = TRUE
      /\ fwd' = Callback(fwd, Connected, devices, FALSE)
      /\ devices' = [ip \in Ips |-> "none"] /\ count' = 0
      /\ reported' = reported
  BY DEF remove_all
<1>2. fwd \in Forwarding /\ ~fwd.late /\ fwd.ub \subseteq Mistaken /\ Serves
  BY <1>1 DEF TypeOK, ListenersSafe
<1>3. Connected' = {} /\ Connected \in SUBSET Ips
  BY <1>1 DEF Connected
<1>4. Counted'
  BY <1>1, <1>3, FS_EmptySet DEF Counted
<1>5. CASE Connected = {}
  <2>1. fwd' = fwd
    BY <1>1, <1>5 DEF Callback
  <2>2. devices' = devices
    BY <1>1, <1>5 DEF Connected, TypeOK
  <2>3. Serves'
    BY <1>2, <1>3, <1>5, <2>1, <2>2 DEF Serves, GroundServes, AirServes
  <2>4. TypeOK'
    <3>1. count' \in 0 .. 255 /\ removed' \in BOOLEAN /\ Ground' \in BOOLEAN
      BY <1>1 DEF TypeOK
    <3>2. /\ reported' \subseteq Discoverers \X Ips
          /\ devices' \in [Ips -> Discoverers \cup {"none"}]
          /\ video' \in {"absent", "running", "destroyed"}
          /\ fwd' \in Forwarding
      BY <1>1, <2>1, <2>2 DEF TypeOK
    <3> QED
      BY <3>1, <3>2 DEF TypeOK
  <2>5. ReportsOK' /\ PlacesOK' /\ ListenersSafe'
    BY <1>1, <1>3, <2>1, <2>2 DEF ReportsOK, PlacesOK, ListenersSafe, Mistaken
  <2> QED
    BY <1>4, <2>3, <2>4, <2>5
<1>6. CASE Connected # {}
  <2>1. fwd' = CallListener(fwd, Connected, devices, FALSE)
    BY <1>1, <1>6 DEF Callback
  <2>2. fwd' \in Forwarding /\ ~fwd'.late
    BY <1>2, <1>3, <2>1, CallListenerTypes
  <2>3. Serves' /\ fwd'.ub \subseteq Mistaken
    <3>1. CASE Ground
      <4>1. /\ fwd'.primary = fwd.primary \ NotSelf(Connected, devices)
            /\ fwd'.ub
                   = fwd.ub \cup (NotSelf(Connected, devices) \ fwd.primary)
        BY <1>2, <1>3, <2>1, <3>1, GroundRemoves
      <4>2. GroundServes
        BY <1>2, <3>1 DEF Serves
      <4>3. NotSelf(Connected, devices) \subseteq fwd.primary
        <5>1. ASSUME NEW i \in NotSelf(Connected, devices)
              PROVE  i \in fwd.primary
          <6>1. i \in Ips /\ devices[i] \in Discoverers
            BY DEF NotSelf, Connected, TypeOK
          <6>2. devices[i] = "net" \/ i \notin Contained
            BY <6>1 DEF NotSelf, ip_is_host_self, Discoverers
          <6> QED
            BY <4>2, <6>1, <6>2 DEF GroundServes, Discoverers
        <5> QED
          BY <5>1
      <4>4. Localhost \notin NotSelf(Connected, devices)
        <5>1. devices[Localhost] # "net" /\ Localhost \in Ips
          BY IpsAssumption DEF ReportsOK
        <5> QED
          BY <5>1 DEF NotSelf, ip_is_host_self, Connected, TypeOK, Discoverers
      <4>5. ASSUME NEW i \in Ips \ Contained PROVE i \notin fwd'.primary
        <5>1. i # Localhost
          BY IpsAssumption
        <5> QED
          BY <4>1, <4>2, <5>1
             DEF GroundServes, NotSelf, ip_is_host_self, Connected
      <4>6. GroundServes'
        BY <1>1, <4>1, <4>2, <4>4, <4>5 DEF GroundServes
      <4> QED
        BY <1>2, <3>1, <4>1, <4>3, <4>6 DEF Serves
    <3>2. CASE ~Ground
      <4>1. AirServes
        BY <1>2, <3>2 DEF Serves
      <4>2. /\ fwd'.primary = fwd.primary \ Connected
            /\ fwd'.audio = fwd.audio \ Connected /\ fwd'.ub = fwd.ub
        BY <1>2, <1>3, <2>1, <3>2, <4>1, AirRemoves DEF AirServes
      <4>3. AirServes'
        BY <1>3, <4>1, <4>2 DEF AirServes
      <4> QED
        BY <1>2, <3>2, <4>2, <4>3 DEF Serves
    <3> QED
      BY <3>1, <3>2
  <2>4. TypeOK'
    <3>1. count' \in 0 .. 255 /\ removed' \in BOOLEAN /\ Ground' \in BOOLEAN
      BY <1>1 DEF TypeOK
    <3>2. /\ reported' \subseteq Discoverers \X Ips
          /\ devices' \in [Ips -> Discoverers \cup {"none"}]
          /\ video' \in {"absent", "running", "destroyed"}
          /\ fwd' \in Forwarding
      BY <1>1, <2>2 DEF TypeOK
    <3> QED
      BY <3>1, <3>2 DEF TypeOK
  <2>5. ReportsOK'
    BY <1>1, IpsAssumption DEF ReportsOK
  <2>6. PlacesOK' /\ ListenersSafe'
    BY <1>1, <1>3, <2>2, <2>3 DEF PlacesOK, ListenersSafe, Mistaken
  <2> QED
    BY <1>4, <2>3, <2>4, <2>5, <2>6
<1> QED
  BY <1>5, <1>6

\* Every step keeps the invariant.
LEMMA DevicesStep == DevicesInv /\ [Next]_vars => DevicesInv'
<1> SUFFICES ASSUME DevicesInv, [Next]_vars PROVE DevicesInv'
  OBVIOUS
<1>1. CASE UNCHANGED vars
  <2>1. Connected' = Connected
    BY <1>1 DEF vars, Connected
  <2> QED
    BY <1>1, <2>1
       DEF vars, DevicesInv, TypeOK, ReportsOK, PlacesOK, ListenersSafe,
           Mistaken, Counted, Serves, GroundServes, AirServes
<1>2. CASE Next
  <2>1. Ground' = Ground
    BY <1>2 DEF Next
  <2>2. CASE \E via \in Discoverers, ip \in Ips :
                 Discovered(via, ip) \/ Lost(via, ip)
    BY <2>1, <2>2, DiscoveredStep, LostStep
  <2>3. CASE StartVideo
    BY <2>1, <2>3, StartVideoStep
  <2>4. CASE remove_all
    BY <2>1, <2>4, RemoveAllStep
  <2>5. CASE DestroyVideo
    <3>1. /\ removed /\ video' = "destroyed"
          /\ UNCHANGED <<reported, devices, count, removed, fwd>>
      BY <2>5 DEF DestroyVideo
    <3>2. Connected' = Connected
      BY <3>1 DEF Connected
    <3> QED
      BY <2>1, <3>1, <3>2
         DEF DevicesInv, TypeOK, ReportsOK, PlacesOK, ListenersSafe,
             Mistaken, Counted
  <2> QED
    BY <1>2, <2>2, <2>3, <2>4, <2>5 DEF Next
<1> QED
  BY <1>1, <1>2

\* The invariant holds of every state.
THEOREM DevicesInvariance == Spec => []DevicesInv
<1> QED
  BY DevicesInit, DevicesStep, PTL DEF Spec

\* For any addresses, any order of reports and losses by any discoverer, and any
\* moment at which the video starts and ends: the receivers are the devices,
\* but for addresses the ground takes for its own (external_device.cpp:58-121,
\* video_ground.cpp:99-127).
THEOREM ReceiversFollowDevices == Spec => []ReceiversAreDevices
<1>1. DevicesInv => ReceiversAreDevices
  <2> SUFFICES ASSUME DevicesInv, video = "running"
               PROVE  /\ ShouldReceive \subseteq fwd.primary
                      /\ fwd.primary \subseteq ShouldReceive \cup Mistaken
                      /\ ~Ground => fwd.audio = Connected
                      /\ count = Cardinality(Connected) % 256
    BY DEF ReceiversAreDevices
  <2>1. count = Cardinality(Connected) % 256 /\ Serves
    BY DEF DevicesInv, Counted
  <2>2. CASE ~Ground
    BY <2>1, <2>2 DEF Serves, AirServes, ShouldReceive
  <2>3. CASE Ground
    <3>1. GroundServes
      BY <2>1, <2>3 DEF Serves
    <3>2. ASSUME NEW i \in NotSelf(Connected, devices) PROVE i \in fwd.primary
      <4>1. i \in Ips /\ devices[i] \in Discoverers
        BY DEF NotSelf, Connected, DevicesInv, TypeOK
      <4>2. devices[i] = "net" \/ i \notin Contained
        BY <4>1 DEF NotSelf, ip_is_host_self, Discoverers
      <4> QED
        BY <3>1, <4>1, <4>2 DEF GroundServes, Discoverers
    <3>3. ASSUME NEW i \in fwd.primary, i # Localhost, i \notin Mistaken
          PROVE  i \in NotSelf(Connected, devices)
      <4>1. i \in Ips /\ i \notin SelfIps
        BY <3>1, <3>3 DEF DevicesInv, TypeOK, Forwarding, GroundServes
      <4>2. i \notin Contained
        BY <2>3, <3>3, <4>1 DEF Mistaken
      <4> QED
        BY <3>1, <3>3, <4>1, <4>2
           DEF GroundServes, NotSelf, ip_is_host_self, Connected
    <3>4. Localhost \in fwd.primary
      BY <3>1 DEF GroundServes
    <3> QED
      BY <2>1, <2>3, <3>2, <3>3, <3>4 DEF ShouldReceive
  <2> QED
    BY <2>2, <2>3
<1> QED
  BY <1>1, DevicesInvariance, PTL

\* Nothing that is not there is removed from a forwarder, but for those
\* addresses, and no listener is called after its object (udp.cpp:91-101,
\* external_device.cpp:58-121).
THEOREM ForwardersAreSafe == Spec => []ForwardersInv
<1>1. DevicesInv => ForwardersInv
  BY DEF DevicesInv, ForwardersInv
<1> QED
  BY <1>1, DevicesInvariance, PTL

-----------------------------------------------------------------------------
(* The settings. What a restart brings back is not inductive: it says      *)
(* nothing of a thread that reads the fields, nor of one that has emptied  *)
(* the file.                                                               *)

\* A thread that saves alone holds what the settings hold, and writes into an
\* empty file.
AloneOK ==
    \A t \in alone : pc[t] # "idle" =>
        /\ Busy = {t}
        /\ \A f \in DOMAIN content[t] : content[t][f] = settings[f]
        /\ pc[t] = "write" => file = Empty

\* Between saves the file can be read, and differs from the settings only in
\* what is just being saved.
FileOK ==
    up /\ repaired /\ (\A t \in Threads : pc[t] # "write") =>
        /\ Parsable(file)
        /\ \A f \in Stored : file.object[f] # settings[f] =>
               \E t \in Busy : changed[t] = f

SavesInv ==
    /\ SettingsTypes /\ AloneOK /\ FileOK
    /\ ~up => \A t \in Threads : pc[t] = "idle"

\* A file that a single write made can be read.
LEMMA FileOfParsable ==
    ASSUME NEW c \in [Stored -> Values]
    PROVE  /\ Parsable(FileOf(c)) /\ FileOf(c).object = c
           /\ FileOf(c).length \in Nat
  BY SettingsAssumption DEF Parsable, FileOf

\* What is dumped of settings are the fields the conversion names.
LEMMA DumpedFields ==
    ASSUME NEW s \in [Fields -> Values]
    PROVE  /\ Dumped(s) \in [Stored -> Values]
           /\ \A f \in Stored : Dumped(s)[f] = s[f]
  BY SettingsAssumption DEF Dumped

\* What is restored are settings.
LEMMA RestoredType == SettingsTypes => Restored \in [Fields -> Values]
<1> SUFFICES ASSUME SettingsTypes PROVE Restored \in [Fields -> Values]
  OBVIOUS
<1>1. CASE Parsable(file)
  <2>1. file.object \in [Stored -> Values]
    <3>1. file # Empty
      BY <1>1, SettingsAssumption DEF Parsable, Empty
    <3> QED
      BY <3>1 DEF SettingsTypes
  <2> QED
    BY <1>1, <2>1, SettingsAssumption DEF Restored
<1>2. CASE ~Parsable(file)
  BY <1>2, SettingsAssumption DEF Restored, DefaultSettings
<1> QED
  BY <1>1, <1>2

\* A text written into an empty file is all that is in it.
LEMMA WriteIntoEmpty == \A k \in Nat : Max({0, k}) = k
<1> SUFFICES ASSUME NEW k \in Nat PROVE Max({0, k}) = k
  OBVIOUS
<1>1. k \in {0, k} /\ \A y \in {0, k} : k >= y
  OBVIOUS
<1>2. \A x \in {0, k} : (\A y \in {0, k} : x >= y) => x = k
  OBVIOUS
<1> QED
  BY <1>1, <1>2 DEF Max

\* The larger of two lengths is a length.
LEMMA LargerOfTwo ==
    ASSUME NEW k \in Nat, NEW m \in Nat PROVE Max({k, m}) \in Nat
<1>1. \E x \in {k, m} : \A y \in {k, m} : x >= y
  OBVIOUS
<1> QED
  BY <1>1 DEF Max

\* The first start.
LEMMA SettingsStart == SettingsInit => SavesInv
<1> SUFFICES ASSUME SettingsInit PROVE SavesInv
  OBVIOUS
<1>1. DefaultSettings \in [Fields -> Values]
  BY SettingsAssumption DEF DefaultSettings
<1>2. /\ Dumped(DefaultSettings) \in [Stored -> Values]
      /\ \A f \in Stored : Dumped(DefaultSettings)[f] = settings[f]
  BY <1>1, DumpedFields DEF SettingsInit
<1>3. Parsable(file) /\ file.object = Dumped(DefaultSettings)
      /\ file.length \in Nat
  BY <1>2, FileOfParsable DEF SettingsInit
<1>4. \E f \in Fields : TRUE
  BY SettingsAssumption
<1>5. (CHOOSE f \in Fields : TRUE) \in Fields
  BY <1>4
<1>6. <<>> \in UNION {[D -> Values] : D \in SUBSET Stored}
  <2>1. <<>> \in [{} -> Values]
    OBVIOUS
  <2> QED
    BY <2>1
<1>7. SettingsTypes
  BY <1>1, <1>2, <1>3, <1>5, <1>6 DEF SettingsInit, SettingsTypes
<1>8. AloneOK /\ FileOK /\ up
  BY <1>2, <1>3 DEF SettingsInit, AloneOK, FileOK
<1> QED
  BY <1>7, <1>8 DEF SavesInv

\* A change makes its thread busy; it is alone if nobody else is.
LEMMA ChangeStep ==
    ASSUME SavesInv, NEW t \in Threads, NEW f \in Fields, NEW v \in Values,
           Change(t, f, v)
    PROVE  SavesInv'
<1> USE DEF SavesInv
<1>1. /\ up /\ pc[t] = "idle" /\ up' = up /\ file' = file
      /\ repaired' = repaired
      /\ settings' = [settings EXCEPT ![f] = v]
      /\ pc' = [pc EXCEPT ![t] = "serialize"]
      /\ content' = [content EXCEPT ![t] = <<>>]
      /\ changed' = [changed EXCEPT ![t] = f]
      /\ alone' = IF Busy = {} THEN {t} ELSE {}
  BY DEF Change
<1>2. <<>> \in UNION {[D -> Values] : D \in SUBSET Stored}
  <2>1. <<>> \in [{} -> Values]
    OBVIOUS
  <2> QED
    BY <2>1
<1>3. Busy' = Busy \cup {t}
  BY <1>1 DEF Busy, SettingsTypes
<1>4. SettingsTypes'
  <2>1. /\ up' \in BOOLEAN /\ repaired' \in BOOLEAN
        /\ changed' \in [Threads -> Fields] /\ alone' \subseteq Threads
        /\ settings' \in [Fields -> Values]
        /\ pc' \in [Threads -> {"idle", "serialize", "write"}]
        /\ file' = Empty
             \/ (file'.object \in [Stored -> Values] /\ file'.length \in Nat)
    BY <1>1 DEF SettingsTypes
  <2>2. ASSUME NEW u \in Threads
        PROVE  /\ content'[u] \in UNION {[D -> Values] : D \in SUBSET Stored}
               /\ pc'[u] = "write" => content'[u] \in [Stored -> Values]
    <3>1. CASE u = t
      <4>1. content'[u] = <<>> /\ pc'[u] = "serialize"
        BY <1>1, <3>1 DEF SettingsTypes
      <4> QED
        BY <1>2, <4>1
    <3>2. CASE u # t
      <4>1. content'[u] = content[u] /\ pc'[u] = pc[u]
        BY <1>1, <3>2 DEF SettingsTypes
      <4> QED
        BY <4>1 DEF SettingsTypes
    <3> QED
      BY <3>1, <3>2
  <2>3. content' \in [Threads -> UNION {[D -> Values] : D \in SUBSET Stored}]
    BY <1>1, <1>2 DEF SettingsTypes
  <2> QED
    BY <2>1, <2>2, <2>3 DEF SettingsTypes
<1>5. AloneOK'
  <2> SUFFICES ASSUME NEW u \in alone'
               PROVE  /\ Busy' = {u} /\ pc'[u] # "write"
                      /\ DOMAIN content'[u] = {}
    BY DEF AloneOK
  <2>1. u = t /\ Busy = {}
    BY <1>1
  <2>2. pc'[t] = "serialize" /\ content'[t] = <<>>
    BY <1>1 DEF SettingsTypes
  <2> QED
    BY <1>3, <2>1, <2>2
<1>6. FileOK'
  <2> SUFFICES ASSUME repaired, \A u \in Threads : pc'[u] # "write"
               PROVE  /\ Parsable(file)
                      /\ \A g \in Stored : file.object[g] # settings'[g] =>
                             \E u \in Busy' : changed'[u] = g
    BY <1>1 DEF FileOK, Parsable
  <2>1. ASSUME NEW u \in Threads PROVE pc[u] # "write"
    BY <1>1 DEF SettingsTypes
  <2>2. /\ Parsable(file)
        /\ \A g \in Stored : file.object[g] # settings[g] =>
               \E u \in Busy : changed[u] = g
    BY <1>1, <2>1 DEF FileOK
  <2>3. ASSUME NEW g \in Stored, file.object[g] # settings'[g]
        PROVE  \E u \in Busy' : changed'[u] = g
    <3>1. CASE g = f
      BY <1>1, <1>3, <3>1 DEF SettingsTypes
    <3>2. CASE g # f
      <4>1. settings'[g] = settings[g]
        BY <1>1, <3>2, SettingsAssumption DEF SettingsTypes
      <4>2. PICK u \in Busy : changed[u] = g
        BY <2>2, <2>3, <4>1
      <4>3. u # t /\ u \in Threads
        BY <1>1 DEF Busy
      <4> QED
        BY <1>1, <1>3, <4>2, <4>3 DEF SettingsTypes
    <3> QED
      BY <3>1, <3>2
  <2> QED
    BY <2>2, <2>3
<1> QED
  BY <1>1, <1>4, <1>5, <1>6

\* Reading a field: of a thread that is alone it is what the settings hold.
LEMMA SerializeStep ==
    ASSUME SavesInv, NEW t \in Threads, NEW f \in Stored, Serialize(t, f)
    PROVE  SavesInv'
<1> USE DEF SavesInv
<1> DEFINE D == DOMAIN content[t]
           c == [g \in D \cup {f} |->
                    IF g = f THEN settings[f] ELSE content[t][g]]
<1>1. /\ pc[t] = "serialize" /\ f \notin D
      /\ content' = [content EXCEPT ![t] = c]
      /\ UNCHANGED <<up, settings, file, pc, changed, alone, repaired>>
  BY DEF Serialize, saves
<1>2. Busy' = Busy
  BY <1>1 DEF Busy
<1>3. D \in SUBSET Stored /\ content[t] \in [D -> Values]
  <2>1. PICK E \in SUBSET Stored : content[t] \in [E -> Values]
    BY DEF SettingsTypes
  <2> QED
    BY <2>1
<1>4. c \in [D \cup {f} -> Values] /\ D \cup {f} \in SUBSET Stored
  <2>1. settings[f] \in Values
    BY SettingsAssumption DEF SettingsTypes
  <2> HIDE DEF D
  <2> QED
    BY <1>3, <2>1
<1>5. c \in UNION {[E -> Values] : E \in SUBSET Stored} /\ DOMAIN c = D \cup {f}
  BY <1>4
<1> HIDE DEF c
<1>6. content'[t] = c /\ \A u \in Threads \ {t} : content'[u] = content[u]
  BY <1>1 DEF SettingsTypes
<1>7. SettingsTypes'
  <2>1. content' \in [Threads -> UNION {[E -> Values] : E \in SUBSET Stored}]
    BY <1>1, <1>5 DEF SettingsTypes
  <2>2. ASSUME NEW u \in Threads, pc'[u] = "write"
        PROVE  content'[u] \in [Stored -> Values]
    BY <1>1, <1>6, <2>2 DEF SettingsTypes
  <2>3. /\ up' \in BOOLEAN /\ repaired' \in BOOLEAN
        /\ changed' \in [Threads -> Fields] /\ alone' \subseteq Threads
        /\ settings' \in [Fields -> Values]
        /\ pc' \in [Threads -> {"idle", "serialize", "write"}]
        /\ file' = Empty
             \/ (file'.object \in [Stored -> Values] /\ file'.length \in Nat)
    BY <1>1 DEF SettingsTypes
  <2> QED
    BY <2>1, <2>2, <2>3 DEF SettingsTypes
<1>8. AloneOK'
  <2> SUFFICES ASSUME NEW u \in alone, pc[u] # "idle"
               PROVE  /\ Busy = {u}
                      /\ \A g \in DOMAIN content'[u] : content'[u][g] = settings[g]
                      /\ pc[u] = "write" => file = Empty
    BY <1>1, <1>2 DEF AloneOK
  <2>1. Busy = {u} /\ (pc[u] = "write" => file = Empty)
        /\ \A g \in DOMAIN content[u] : content[u][g] = settings[g]
    BY DEF AloneOK
  <2>2. u = t
    BY <1>1, <2>1 DEF Busy
  <2>3. ASSUME NEW g \in DOMAIN c PROVE c[g] = settings[g]
    <3>1. c[g] = IF g = f THEN settings[f] ELSE content[t][g]
      BY <1>5 DEF c
    <3> QED
      BY <1>5, <2>1, <2>2, <3>1
  <2> QED
    BY <1>6, <2>1, <2>2, <2>3
<1>9. FileOK'
  BY <1>1, <1>2 DEF FileOK, Parsable
<1> QED
  BY <1>1, <1>7, <1>8, <1>9

\* Opening empties the file; nothing is promised until the thread has written.
LEMMA OpenStep ==
    ASSUME SavesInv, NEW t \in Threads, Open(t)
    PROVE  SavesInv'
<1> USE DEF SavesInv
<1>1. /\ pc[t] = "serialize" /\ DOMAIN content[t] = Stored
      /\ file' = Empty /\ pc' = [pc EXCEPT ![t] = "write"]
      /\ UNCHANGED <<up, settings, content, changed, alone, repaired>>
  BY DEF Open, saves
<1>2. Busy' = Busy
  BY <1>1 DEF Busy, SettingsTypes
<1>3. content[t] \in [Stored -> Values]
  <2>1. PICK E \in SUBSET Stored : content[t] \in [E -> Values]
    BY DEF SettingsTypes
  <2> QED
    BY <1>1, <2>1
<1>4. pc'[t] = "write" /\ \A u \in Threads \ {t} : pc'[u] = pc[u]
  BY <1>1 DEF SettingsTypes
<1>5. SettingsTypes'
  <2>1. ASSUME NEW u \in Threads, pc'[u] = "write"
        PROVE  content'[u] \in [Stored -> Values]
    BY <1>1, <1>3, <1>4, <2>1 DEF SettingsTypes
  <2>2. pc' \in [Threads -> {"idle", "serialize", "write"}]
    BY <1>1 DEF SettingsTypes
  <2>3. /\ up' \in BOOLEAN /\ repaired' \in BOOLEAN
        /\ changed' \in [Threads -> Fields] /\ alone' \subseteq Threads
        /\ settings' \in [Fields -> Values]
        /\ content' \in [Threads -> UNION {[E -> Values] : E \in SUBSET Stored}]
    BY <1>1 DEF SettingsTypes
  <2> QED
    BY <1>1, <2>1, <2>2, <2>3 DEF SettingsTypes
<1>6. AloneOK'
  <2>1. ASSUME NEW u \in alone', pc'[u] # "idle"
        PROVE  /\ Busy' = {u}
               /\ \A g \in DOMAIN content'[u] : content'[u][g] = settings'[g]
    <3>1. u \in alone /\ u \in Threads /\ pc[u] # "idle"
      BY <1>1, <1>4, <2>1 DEF SettingsTypes
    <3> QED
      BY <1>1, <1>2, <3>1 DEF AloneOK
  <2> QED
    BY <1>1, <2>1 DEF AloneOK
<1>7. FileOK'
  BY <1>4 DEF FileOK
<1>8. up
  BY <1>1
<1> QED
  BY <1>1, <1>5, <1>6, <1>7, <1>8

\* The write of a thread that is alone makes the file what the settings are.
LEMMA WriteStep ==
    ASSUME SavesInv, NEW t \in Threads, Write(t)
    PROVE  SavesInv'
<1> USE DEF SavesInv
<1> DEFINE c == content[t]
           len == Max({file.length, TextLength[c]})
<1>1. /\ pc[t] = "write" /\ file' = [object |-> c, length |-> len]
      /\ pc' = [pc EXCEPT ![t] = "idle"] /\ repaired' = (t \in alone)
      /\ UNCHANGED <<up, settings, content, changed, alone>>
  BY DEF Write
<1>2. c \in [Stored -> Values] /\ up
  BY <1>1 DEF SettingsTypes
<1>3. file.length \in Nat /\ TextLength[c] \in Nat
  BY <1>2, SettingsAssumption DEF SettingsTypes, Empty
<1>4. len \in Nat
  BY <1>3, LargerOfTwo
<1> HIDE DEF c, len
<1>5. pc'[t] = "idle" /\ \A u \in Threads \ {t} : pc'[u] = pc[u]
  BY <1>1 DEF SettingsTypes
<1>6. SettingsTypes'
  <2>1. ASSUME NEW u \in Threads, pc'[u] = "write"
        PROVE  content'[u] \in [Stored -> Values]
    BY <1>1, <1>5, <2>1 DEF SettingsTypes
  <2>2. pc' \in [Threads -> {"idle", "serialize", "write"}]
    BY <1>1 DEF SettingsTypes
  <2>3. file'.object \in [Stored -> Values] /\ file'.length \in Nat
    BY <1>1, <1>2, <1>4
  <2>4. repaired' \in BOOLEAN
    BY <1>1
  <2>5. /\ up' \in BOOLEAN
        /\ changed' \in [Threads -> Fields] /\ alone' \subseteq Threads
        /\ settings' \in [Fields -> Values]
        /\ content' \in [Threads -> UNION {[E -> Values] : E \in SUBSET Stored}]
    BY <1>1 DEF SettingsTypes
  <2> QED
    BY <2>1, <2>2, <2>3, <2>4, <2>5 DEF SettingsTypes
<1>7. AloneOK'
  <2> SUFFICES ASSUME NEW u \in alone', pc'[u] # "idle" PROVE FALSE
    BY DEF AloneOK
  <2>1. u \in alone /\ u \in Threads /\ u # t /\ pc[u] # "idle"
    BY <1>1, <1>5 DEF SettingsTypes
  <2>2. Busy = {u} /\ t \in Busy
    BY <1>1, <2>1 DEF AloneOK, Busy
  <2> QED
    BY <2>1, <2>2
<1>8. FileOK'
  <2> SUFFICES ASSUME t \in alone
               PROVE  /\ Parsable(file')
                      /\ \A f \in Stored : file'.object[f] = settings'[f]
    BY <1>1 DEF FileOK, Parsable
  <2>1. file = Empty /\ \A g \in DOMAIN c : c[g] = settings[g]
    BY <1>1 DEF AloneOK, c
  <2>2. len = TextLength[c]
    BY <1>3, <2>1, WriteIntoEmpty DEF len, Empty
  <2> QED
    BY <1>1, <1>2, <2>1, <2>2 DEF Parsable
<1> QED
  BY <1>1, <1>2, <1>6, <1>7, <1>8

\* The end of the program, and its start: what init() persists is what it read.
LEMMA RestartStep == SavesInv /\ (Crash \/ init) => SavesInv'
<1> SUFFICES ASSUME SavesInv, Crash \/ init PROVE SavesInv'
  OBVIOUS
<1> USE DEF SavesInv
<1>1. CASE Crash
  <2>1. /\ up' = FALSE /\ pc' = [t \in Threads |-> "idle"]
        /\ UNCHANGED <<settings, file, content, changed, alone, repaired>>
    BY <1>1 DEF Crash, saves
  <2>2. SettingsTypes'
    BY <2>1 DEF SettingsTypes
  <2>3. \A t \in Threads : pc'[t] = "idle"
    BY <2>1
  <2>4. AloneOK' /\ FileOK'
    BY <2>1, <2>2, <2>3 DEF AloneOK, FileOK, SettingsTypes
  <2> QED
    BY <2>2, <2>3, <2>4
<1>2. CASE init
  <2>1. /\ ~up /\ up' = TRUE /\ settings' = Restored
        /\ file' = FileOf(Dumped(Restored)) /\ repaired' = TRUE
        /\ UNCHANGED <<pc, content, changed, alone>>
    BY <1>2 DEF init
  <2>2. Restored \in [Fields -> Values]
    BY RestoredType
  <2>3. /\ Parsable(file') /\ file'.length \in Nat
        /\ file'.object \in [Stored -> Values]
        /\ \A f \in Stored : file'.object[f] = settings'[f]
    <3>1. /\ Dumped(Restored) \in [Stored -> Values]
          /\ \A f \in Stored : Dumped(Restored)[f] = Restored[f]
      BY <2>2, DumpedFields
    <3>2. Parsable(FileOf(Dumped(Restored)))
          /\ FileOf(Dumped(Restored)).object = Dumped(Restored)
          /\ FileOf(Dumped(Restored)).length \in Nat
      BY <3>1, FileOfParsable
    <3> QED
      BY <2>1, <3>1, <3>2
  <2>4. SettingsTypes'
    BY <2>1, <2>2, <2>3 DEF SettingsTypes
  <2>5. \A t \in Threads : pc'[t] = "idle"
    BY <2>1
  <2>6. AloneOK' /\ FileOK'
    BY <2>3, <2>4, <2>5 DEF AloneOK, FileOK, SettingsTypes
  <2> QED
    BY <2>1, <2>4, <2>6
<1> QED
  BY <1>1, <1>2

\* Every step of a thread, and of the program, keeps the invariant.
LEMMA SettingsStep ==
    SavesInv /\ [SettingsNext]_settingsVars => SavesInv'
<1>1. SavesInv /\ UNCHANGED settingsVars => SavesInv'
  BY DEF settingsVars, saves, SavesInv, SettingsTypes, AloneOK, FileOK, Busy,
         Parsable
<1>2. SavesInv /\ SettingsNext => SavesInv'
  BY ChangeStep, SerializeStep, OpenStep, WriteStep, RestartStep
     DEF SettingsNext
<1> QED
  BY <1>1, <1>2

\* For any number of threads, any fields and any lengths of texts, and wherever
\* the program ends: a restart costs at most the changes that are being saved,
\* unless a save is between truncation and write or saves have overlapped, and
\* one save that runs alone repairs the file (settings_persistent.h:80-169,
\* util_filesystem.cpp:123-139).
THEOREM SavesInvariance == SettingsSpec => []SettingsInv
<1>1. SavesInv => SettingsInv
  <2> SUFFICES ASSUME SavesInv PROVE SavesSurvive
    BY DEF SavesInv, SettingsInv
  <2> SUFFICES ASSUME up, repaired, \A t \in Threads : pc[t] # "write",
                      NEW f \in Stored, Restored[f] # settings[f]
               PROVE  \E t \in Busy : changed[t] = f
    BY DEF SavesSurvive
  <2>1. Parsable(file) /\ (file.object[f] # settings[f] =>
                               \E t \in Busy : changed[t] = f)
    BY DEF SavesInv, FileOK
  <2>2. Restored[f] = file.object[f]
    BY <2>1, SettingsAssumption DEF Restored
  <2> QED
    BY <2>1, <2>2
<1> QED
  BY <1>1, SettingsStart, SettingsStep, PTL DEF SettingsSpec

=============================================================================
