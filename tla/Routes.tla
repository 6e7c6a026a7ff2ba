-------------------------------- MODULE Routes --------------------------------
(***************************************************************************)
(* The paths the server answers and the files behind them                  *)
(* (create_router_with and the file handlers, src/src/server.rs; the shim  *)
(* and resolve_within, src/src/overlays.rs).                               *)
(*                                                                         *)
(* A path is the sequence of its segments, with a last "" for a trailing   *)
(* slash.  The disk is the set of its files and directories by their       *)
(* canonical paths, the links among them, and the order in which a         *)
(* directory lists its entries.                                            *)
(***************************************************************************)
EXTENDS Integers, Sequences, SequencesExt, FiniteSets, TLC

CONSTANT Nowhere   (* no handler, no path                                  *)

-----------------------------------------------------------------------------
(* JsonPayload::from_config, and the routes.                               *)
PayloadOf(value) == IF value = "v2" THEN "v2" ELSE "v1"

HttpRoutes ==
  <<"json", "v2">> :> "v2" @@ <<"json", "v2", "precise">> :> "precise" @@
  <<"json", "v1">> :> "v1" @@ <<"json", "sc">> :> "sc" @@ <<"health">> :> "health" @@
  <<"">> :> "landing" @@ <<"api", "settings">> :> "settings" @@ <<"api", "restart">> :> "restart" @@
  <<"api", "logs">> :> "logs list" @@ <<"api", "logs", "view">> :> "logs view" @@
  <<"api", "logs", "download">> :> "logs download" @@ <<"api", "logs", "tail">> :> "logs tail" @@
  <<"logs">> :> "logs page" @@ <<"files", "beatmap", "background">> :> "background" @@
  <<"files", "beatmap", "*">> :> "songs" @@ <<"Songs", "*">> :> "songs" @@
  <<"files", "skin", "*">> :> "skin" @@ <<"backgroundImage">> :> "background" @@
  <<"favicon.ico">> :> "favicon"

SocketRoutes(payload) ==
  <<"websocket", "v2">> :> "ws v2" @@ <<"websocket", "v2", "delta">> :> "ws delta" @@
  <<"websocket", "v2", "precise">> :> "ws precise" @@ <<"ws">> :> "ws v1" @@
  <<"tokens">> :> "ws tokens" @@ <<"websocket", "commands">> :> "ws commands" @@
  <<"json">> :> payload

OverlayRoutes ==
  <<"overlays", "__rtosu", "overlay-shim.js">> :> "shim" @@ <<"overlays">> :> "overlays" @@
  <<"overlays", "">> :> "overlays" @@ <<"overlays", "{slug}">> :> "redirect" @@
  <<"overlays", "{slug}", "">> :> "entry" @@ <<"overlays", "{slug}", "*">> :> "asset"

Registered(config) ==
  (IF config.http THEN HttpRoutes ELSE <<>>) @@
  (IF config.ws THEN SocketRoutes(PayloadOf(config.payload)) ELSE <<>>) @@
  (IF config.overlays THEN OverlayRoutes ELSE <<>>)

(* axum: a route as it stands, then {slug} for one segment and * for one   *)
(* or more.                                                                *)
Matches(route, path) ==
  LET n == Len(route)
      same(i) == route[i] = path[i] \/ (route[i] = "{slug}" /\ path[i] # "")
  IN IF route[n] = "*"
     THEN Len(path) >= n /\ (Len(path) = n => path[n] # "") /\ \A i \in 1..(n - 1) : same(i)
     ELSE Len(path) = n /\ \A i \in 1..n : same(i)

Handler(routes, path) ==
  IF path \in DOMAIN routes THEN routes[path]
  ELSE IF \E r \in DOMAIN routes : Matches(r, path)
  THEN routes[CHOOSE r \in DOMAIN routes : Matches(r, path)] ELSE Nowhere

-----------------------------------------------------------------------------
(* The shim in an overlay's page.  A URL's host is the page's own, one of  *)
(* the loopback names, or another.                                         *)
KeptSockets == {<<"ws">>, <<"websocket", "v2">>, <<"websocket", "v2", "precise">>}

To(from, to) == [from |-> from, to |-> to]
FileRoutes ==
  << To(<<"backgroundImage">>, <<"files", "beatmap", "background">>),
     To(<<"Songs">>, <<"files", "beatmap">>),
     To(<<"files", "beatmap">>, <<"files", "beatmap">>),
     To(<<"files", "skin">>, <<"files", "skin">>) >>

TargetsProvider(url) == url.host # "other"

RewriteSocketUrl(url, page) ==
  IF url.scheme \notin {"ws", "wss"} \/ ~TargetsProvider(url) THEN url
  ELSE IF url.path \notin KeptSockets \cup {<<"">>} THEN url
  ELSE [scheme |-> IF page = "https" THEN "wss" ELSE "ws", host |-> "page",
        path |-> IF url.path = <<"">> THEN <<"websocket", "v2">> ELSE url.path]

(* Under a prefix: all of it, or what follows its slash.                   *)
Under(path, from) ==
  IsPrefix(from, path) /\ (from = <<"backgroundImage">> \/ Len(path) > Len(from))

RewriteHttpUrl(url, page) ==
  LET fits == {i \in DOMAIN FileRoutes : Under(url.path, FileRoutes[i].from)}
      first == CHOOSE i \in fits : \A j \in fits : i <= j
  IN IF url.scheme \notin {"http", "https"} \/ ~TargetsProvider(url) \/ fits = {} THEN url
     ELSE [scheme |-> page, host |-> "page",
           path |-> FileRoutes[first].to \o
                    SubSeq(url.path, Len(FileRoutes[first].from) + 1, Len(url.path))]

-----------------------------------------------------------------------------
(* percent_encode and percent_decode, byte by byte.                        *)
HexDigits == {"0", "2", "5", "B", "F"}
Escape == " " :> <<"2", "0">> @@ "%" :> <<"2", "5">> @@ "/" :> <<"2", "F">> @@ "+" :> <<"2", "B">>

PercentEncode(raw) ==
  FlattenSeq([i \in DOMAIN raw |->
    IF raw[i] \in DOMAIN Escape THEN <<"%">> \o Escape[raw[i]] ELSE <<raw[i]>>])

(* from_str_radix takes a sign.                                            *)
IsByte(pair) == pair[2] \in HexDigits /\ pair[1] \in HexDigits \cup {"+"}
ByteOf(pair) ==
  IF \E c \in DOMAIN Escape : Escape[c] = pair
  THEN CHOOSE c \in DOMAIN Escape : Escape[c] = pair ELSE "another"

RECURSIVE PercentDecode(_)
PercentDecode(raw) ==
  IF raw = <<>> THEN <<>>
  ELSE IF raw[1] = "%" /\ Len(raw) > 2 /\ IsByte(SubSeq(raw, 2, 3))
  THEN <<ByteOf(SubSeq(raw, 2, 3))>> \o PercentDecode(SubSeq(raw, 4, Len(raw)))
  ELSE <<raw[1]>> \o PercentDecode(Tail(raw))

-----------------------------------------------------------------------------
(* The disk: links are followed, ".." goes up, what is not there is        *)
(* nowhere; an absolute path begins at its drive.                          *)
Exists(disk, path) == path \in disk.dirs \cup disk.files

Canonical(disk, path) ==
  FoldLeft(LAMBDA at, name :
      IF at = Nowhere \/ name \in {"", "."} THEN at
      ELSE LET to == IF name = ".." THEN (IF at = <<>> THEN at ELSE Front(at)) ELSE Append(at, name)
               followed == IF to \in DOMAIN disk.links THEN disk.links[to] ELSE to
           IN IF followed = <<>> \/ Exists(disk, followed) THEN followed ELSE Nowhere,
    <<>>, path)

Joined(root, rel) == IF rel # <<>> /\ rel[1] = "C:" THEN rel ELSE root \o rel

(* resolve_within: the parts that are not empty, none of which may go up   *)
(* or name a drive.                                                        *)
ResolveWithin(disk, dir, parts) ==
  LET used == SelectSeq(parts, LAMBDA p : p \notin {"", "."})
      target == Canonical(disk, dir \o used)
  IN IF used = <<>> \/ \E i \in DOMAIN used : used[i] \in {"..", "C:"} THEN Nowhere
     ELSE IF target = Nowhere \/ Canonical(disk, dir) = Nowhere THEN Nowhere
     ELSE IF IsPrefix(Canonical(disk, dir), target) THEN target ELSE Nowhere

CanonicalSongsRoot(disk, songs) ==
  LET root == Canonical(disk, songs) IN
  IF songs = <<>> \/ root \notin disk.dirs THEN Nowhere ELSE root

(* contained_in_songs: the first candidate that is a file in there.        *)
ContainedInSongs(disk, root, candidates) ==
  LET at == [i \in DOMAIN candidates |-> Canonical(disk, candidates[i])]
      good == {i \in DOMAIN at : at[i] # Nowhere /\ at[i] \in disk.files /\ IsPrefix(root, at[i])}
  IN IF good = {} THEN Nowhere ELSE at[CHOOSE i \in good : \A j \in good : i <= j]

(* serve_contained_file: for /Songs/, /files/beatmap/ and /files/skin/.    *)
ServeContainedFile(disk, folder, rel) ==
  LET root == CanonicalSongsRoot(disk, folder) IN
  IF root = Nowhere \/ rel = <<>> THEN Nowhere
  ELSE ContainedInSongs(disk, root, <<Joined(root, rel)>>)

-----------------------------------------------------------------------------
(* find_beatmap_background: a conventional name, an image of the mapset,   *)
(* any image.  An entry of a listing says whether it is an image, and the  *)
(* mapset its name begins with.                                            *)
Conventional == <<"background.jpg", "background.jpeg", "background.png">>

FindBeatmapBackground(disk, root, folder, set) ==
  LET dir == root \o folder
      named == SelectSeq(Conventional, LAMBDA n : Append(dir, n) \in disk.files)
      images == SelectSeq(disk.listing, LAMBDA e : Append(dir, e.name) \in disk.files /\ e.image)
      ofSet == SelectSeq(images, LAMBDA e : e.set = set)
  IN IF Len(folder) # 1 \/ dir \notin disk.dirs THEN <<>>
     ELSE IF named # <<>> THEN <<Append(dir, named[1])>>
     ELSE IF ofSet # <<>> THEN <<Append(dir, ofSet[1].name)>>
     ELSE IF images # <<>> THEN <<Append(dir, images[1].name)>> ELSE <<>>

(* Mutant: any mapset is answered.                                         *)
AnyMapset(packet, mapset) == TRUE

IsLoadedSet(packet, mapset) == mapset \in {Nowhere, packet.set}

(* handle_beatmap_background.                                              *)
Background(disk, packet, mapset) ==
  LET root == CanonicalSongsRoot(disk, packet.songs)
      given == (IF packet.relative # <<>> THEN <<Joined(root, packet.relative)>> ELSE <<>>) \o
               (IF packet.background # <<>> THEN <<packet.background>> ELSE <<>>)
  IN IF ~IsLoadedSet(packet, mapset) \/ root = Nowhere THEN Nowhere
     ELSE ContainedInSongs(disk, root,
            given \o FindBeatmapBackground(disk, root, packet.folder, packet.set))

-----------------------------------------------------------------------------
(* inject_shim: a page is a sequence of pieces, of which "<head", "<html", *)
(* "<!doctype", "<script" and "<p" open a tag, ">" ends it and "quote"     *)
(* begins or ends a value.                                                 *)
Opening == {"<!doctype", "<html", "<head", "<script", "<p"}

FindTag(html, tag) ==
  LET at == {i \in DOMAIN html : html[i] = tag}
  IN IF at = {} THEN 0 ELSE CHOOSE i \in at : \A j \in at : i <= j

Quoted(html, start, i) ==
  Cardinality({j \in start..(i - 1) : html[j] = "quote"}) % 2 = 1

(* Mutant: a > in a value ends the tag.                                    *)
FirstEnd(html, start) ==
  LET ends == {i \in start..Len(html) : html[i] = ">"}
  IN IF ends = {} THEN Len(html) ELSE CHOOSE i \in ends : \A j \in ends : i <= j

TagEnd(html, start) ==
  LET ends == {i \in start..Len(html) : html[i] = ">" /\ ~Quoted(html, start, i)}
  IN IF ends = {} THEN Len(html) ELSE CHOOSE i \in ends : \A j \in ends : i <= j

ShimPlace(html) ==
  IF FindTag(html, "<head") > 0 THEN TagEnd(html, FindTag(html, "<head"))
  ELSE IF FindTag(html, "<html") > 0 THEN TagEnd(html, FindTag(html, "<html"))
  ELSE IF html # <<>> /\ html[1] = "<!doctype" /\ FindTag(html, ">") > 0 THEN FindTag(html, ">")
  ELSE 0

InjectShim(html) ==
  SubSeq(html, 1, ShimPlace(html)) \o <<"shim">> \o SubSeq(html, ShimPlace(html) + 1, Len(html))

-----------------------------------------------------------------------------
(* A URL the shim rewrites is answered by the handler that was meant, and  *)
(* rewriting it again changes nothing.  (Songs/background is the image of  *)
(* the map by either way the shim knows.)                                  *)
ShimKeepsMeaning(url, page) ==
  LET config == [http |-> TRUE, ws |-> TRUE, payload |-> "v1", overlays |-> TRUE]
      http == RewriteHttpUrl(url, page)
      socket == RewriteSocketUrl(url, page)
      of(u) == Handler(Registered(config), u.path)
  IN /\ http # url /\ url.path # <<"Songs", "background">> =>
          of(http) = of(url) /\ of(http) # Nowhere
     /\ socket # url => of(socket) = IF url.path = <<"">> THEN "ws v2" ELSE of(url)
     /\ RewriteHttpUrl(http, page) = http /\ RewriteSocketUrl(socket, page) = socket
     /\ TargetsProvider(url) \/ (http = url /\ socket = url)

(* "100% Pure becomes 100%25%20Pure and decodes back exactly"              *)
(* (src/src/overlays.rs).                                                  *)
NamesComeBack(raw) ==
  /\ PercentDecode(PercentEncode(raw)) = raw
  /\ \A i \in DOMAIN PercentEncode(raw) : PercentEncode(raw)[i] \notin {" ", "/", "+"}

(* What is served is a file, in its folder, and the one at the path that   *)
(* was asked for, wherever links lead.                                     *)
FileIsInFolder(disk, folder, rel) ==
  LET served == ServeContainedFile(disk, folder, rel)
      asset == ResolveWithin(disk, folder, rel)
      root == Canonical(disk, folder)
  IN /\ served # Nowhere => served \in disk.files /\ IsPrefix(root, served)
     /\ asset # Nowhere => Exists(disk, asset) /\ IsPrefix(root, asset)
     /\ asset \in disk.files => asset = served
     /\ \A file \in disk.files :
          rel # <<>> /\ IsPrefix(root, file) /\ root # Nowhere /\ file = root \o rel =>
            served = file /\ asset = file

(* The background is an image of the map that was asked for: the one it    *)
(* names if that is there, and never one out of another folder.            *)
BackgroundIsOfTheMap(disk, packet, mapset) ==
  LET image == Background(disk, packet, mapset)
      root == Canonical(disk, packet.songs)
  IN image # Nowhere =>
       /\ mapset \in {Nowhere, packet.set}
       /\ image \in disk.files
       /\ \/ IsPrefix(root \o packet.folder, image)
          \/ \E l \in DOMAIN disk.links : IsPrefix(root \o packet.folder, l) /\ disk.links[l] = image
       /\ Canonical(disk, root \o packet.relative) \in disk.files =>
            image = Canonical(disk, root \o packet.relative)

(* The shim is between tags, never in one, and nothing of the page is lost *)
(* (find_doctype alone does not know of quotes).                           *)
WellFormed(html) ==
  \A i \in DOMAIN html : html[i] \in Opening =>
    \E j \in (i + 1)..Len(html) :
      /\ html[j] = ">" /\ ~Quoted(html, i, j)
      /\ \A k \in (i + 1)..(j - 1) :
           html[k] \notin Opening /\ (html[i] = "<!doctype" => html[k] # "quote")
ShimIsBetweenTags(html) ==
  LET page == InjectShim(html)
      at == FindTag(page, "shim")
  IN /\ SelectSeq(page, LAMBDA t : t # "shim") = html
     /\ WellFormed(html) =>
          \A i \in 1..(at - 1) : page[i] \in Opening =>
            \E j \in i..(at - 1) : page[j] = ">" /\ ~Quoted(page, i, j)

-----------------------------------------------------------------------------
(* enable_http will "Mount the /json endpoints" (README.md:194).           *)
JsonIsHttp(config) == (Handler(Registered(config), <<"json">>) # Nowhere) = config.http

(* "their tosu API calls are rewritten to this server automatically"       *)
(* (src/src/overlays.rs).                                                  *)
ApiIsRewritten(url, page) ==
  url.scheme = "http" /\ url.host = "loopback" => RewriteHttpUrl(url, page).host = "page"

(* "so it installs before any overlay script runs" (src/src/overlays.rs).  *)
ShimRunsFirst(html) ==
  WellFormed(html) =>
    \A i \in DOMAIN InjectShim(html) : InjectShim(html)[i] = "<script" => ShimPlace(html) < i

(* An asset's path is decoded by the router and once more.                 *)
NamesOfFilesComeBack(raw) == PercentDecode(PercentDecode(PercentEncode(raw))) = raw
=============================================================================
