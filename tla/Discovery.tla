------------------------------- MODULE Discovery -------------------------------
(***************************************************************************)
(* The pure part of finding and making remote devices: which servers       *)
(* SoapyRemoteDevice::getServerURLs lists (client/DiscoverServers.cpp),    *)
(* and how the arguments of a device travel from the server to the         *)
(* application and back (client/Registration.cpp).                         *)
(*                                                                         *)
(* A server process is known by the number of its UUID, in the order of    *)
(* the map, and has at most one URL under each IP version.  What a         *)
(* discovery protocol found is [uuid -> [version -> URL]].                 *)
(***************************************************************************)
EXTENDS Naturals

-----------------------------------------------------------------------------
\* The map g with the entries of f written over it.
Over(f, g) == [x \in DOMAIN f \cup DOMAIN g |-> IF x \in DOMAIN f THEN f[x] ELSE g[x]]

\* The answer of mDNS is written over that of SSDP, URL by URL.
Merged(ssdp, mdns) ==
  [u \in DOMAIN ssdp \cup DOMAIN mdns |->
     IF u \notin DOMAIN mdns THEN ssdp[u]
     ELSE IF u \notin DOMAIN ssdp THEN mdns[u] ELSE Over(mdns[u], ssdp[u])]

\* Two servers share a URL.
Share(found, u, w) ==
  \E v \in DOMAIN found[u] \cap DOMAIN found[w] : found[u][v] = found[w][v]

\* A faulty variant: duplicates are erased together with what they duplicate.
KeptUnshared(found) == {u \in DOMAIN found : \A w \in DOMAIN found \ {u} : ~Share(found, u, w)}

\* The loop over the map erases a server that has a URL of one before it, whether
\* or not that one was erased itself: knownURLs holds the URLs of both kinds.
Kept(found) == {u \in DOMAIN found : \A w \in DOMAIN found : w < u => ~Share(found, u, w)}

\* The URL of the preferred IP version, or else that of the lowest.
Preferred(urls, ver) ==
  IF ver \in DOMAIN urls THEN urls[ver]
  ELSE urls[CHOOSE v \in DOMAIN urls : \A w \in DOMAIN urls : v <= w]

\* The URL listed for each server that has one.
Listed(found, ver) ==
  [u \in {w \in Kept(found) : DOMAIN found[w] # {}} |-> Preferred(found[u], ver)]

-----------------------------------------------------------------------------
(* Arguments.  A key is a name behind some number of "remote:" prefixes.   *)
Key(depth, name) == [depth |-> depth, name |-> name]
Stop == Key(0, "soapy_remote_no_deeper")
Driver == Key(0, "driver")
Type == Key(0, "type")
Remote == Key(0, "remote")
Prefixed(key) == Key(key.depth + 1, key.name)
Stripped(key) == Key(key.depth - 1, key.name)

\* translateArgs: the keys with the prefix lose it and go before those without; what
\* chose the driver on this side is left out, and the stop key is always there.
translateArgs(args) ==
  LET nested == {k \in DOMAIN args : k.depth > 0}
      plain == {k \in DOMAIN args : k.depth = 0} \ {Driver, Type}
  IN [k \in {Stop} \cup plain \cup {Stripped(n) : n \in nested} |->
        IF Prefixed(k) \in nested THEN args[Prefixed(k)]
        ELSE IF k \in plain THEN args[k] ELSE ""]

\* A faulty variant: only the driver is taken care of.
RenamedDriver(args, url) ==
  [k \in (DOMAIN args \ {Driver, Stop}) \cup {Prefixed(Driver), Remote} |->
     IF k = Remote THEN url ELSE IF k = Prefixed(Driver) THEN args[Driver] ELSE args[k]]

\* The end of findRemote: what the server answered for a device becomes arguments of
\* this side: the stop key goes, driver and type get the prefix, the URL is added.
Renamed(args, url) ==
  LET moved == {Driver, Type} \cap DOMAIN args
      stays == DOMAIN args \ ({Driver, Type, Stop} \cup {Prefixed(k) : k \in moved})
  IN [k \in stays \cup {Prefixed(m) : m \in moved} \cup {Remote} |->
        IF k = Remote THEN url
        ELSE IF \E m \in moved : k = Prefixed(m) THEN args[Key(0, k.name)] ELSE args[k]]

\* SoapySDR itself adds the driver that found a device to its arguments.
Found(args, url) == Over(Renamed(args, url), [k \in {Driver} |-> "remote"])

\* findRemote where the stop key is: the server looks no deeper, which ends the recursion
\* of servers that load this module too.
FindsNothing(args) == Stop \in DOMAIN args

\* The arguments of a device that come back to its server.
RoundTrip(args, url) ==
  LET back == translateArgs(Found(args, url))
  IN /\ FindsNothing(back)
     /\ \A k \in DOMAIN args \ {Stop} : k \in DOMAIN back /\ back[k] = args[k]

=============================================================================
