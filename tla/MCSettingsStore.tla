--------------------------- MODULE MCSettingsStore ---------------------------
(* Small instances of SettingsStore.                                       *)
EXTENDS SettingsStore

CONSTANTS r1, r2, r3

(* Two settings, the first one live; both on is what validate refuses, as  *)
(* it refuses overlays without HTTP.                                       *)
TwoKeys == {"enable_pp", "enable_overlays"}
PpOnly == {"enable_pp"}
OffOn == {0, 1}
Config(pp, overlays) == [k \in TwoKeys |-> IF k = "enable_pp" THEN pp ELSE overlays]
AllOff == Config(0, 0)
NotBoth == {Config(0, 0), Config(0, 1), Config(1, 0)}
AllConfigs == [TwoKeys -> OffOn]

TwoRequests == {r1, r2}
ThreeRequests == {r1, r2, r3}
OneOfEach == [r \in {r1, r2} |-> IF r = r1 THEN [k \in {"enable_pp"} |-> 1]
                                 ELSE [k \in {"enable_overlays"} |-> 1]]
OnOffOther == [r \in {r1, r2, r3} |-> IF r = r1 THEN [k \in {"enable_pp"} |-> 1]
                                      ELSE IF r = r2 THEN [k \in {"enable_pp"} |-> 0]
                                      ELSE [k \in {"enable_overlays"} |-> 1]]
OnOff == [r \in {r1, r2} |-> [k \in {"enable_pp"} |-> IF r = r1 THEN 1 ELSE 0]]

NoEdits == {}
PpOn == [k \in PpOnly |-> 1]
EditedAs(layout, says) == [layout |-> layout, says |-> says]

(* The live setting changed by hand, in a file that names every key and in *)
(* one written before the other key existed.                               *)
KnownEdits == {EditedAs("template", Config(1, 0)), EditedAs("template", PpOn)}

(* A comment after a header.                                               *)
CommentedHeader == {EditedAs("unseen", Config(1, 0))}
=============================================================================
