----------------------------- MODULE MCHandlers -----------------------------
(* Small instances of Handlers for TLC. *)
EXTENDS Handlers

MCMaxHits == [m \in MapPaths |-> CASE m = "Accessibility_output_buf" -> 4
                                   [] m = "BitmapAllocation_output" -> 3
                                   [] OTHER -> 2]

MCDurations == [m \in MapPaths |-> CASE m = "Accessibility_output_buf" -> {2}
                                     [] m \in GenericMaps -> {1, 9}
                                     [] OTHER -> {0}]

AllFlags == {"enable_bitmap_snapshot", "enable_binder_transaction", "CINNAMON_BUN",
             "a11y_runtime_permission", "uprobestats_monitor_disruptive_app_activities"}
MCFlagSets == {AllFlags, {"enable_bitmap_instrumentation"}}

(* With keys of two bytes "a" is terminated; "ab" and "aba" fill the key    *)
(* and look like "a" to the BPF program; the others have a zero.            *)
MCNames == {<<"a">>, <<"b">>, <<"a", "b">>, <<"a", "b", "a">>, <<"a", Nul>>, <<Nul, "a">>, <<Nul>>}

Method(atom, mode) == [atom |-> atom, mode |-> mode, positions |-> <<"CODE", "CALLING_UID">>]
Bad == [atom |-> TRUE, mode |-> "none", positions |-> <<"CODE", "UNKNOWN">>]
One(name, method) == [n \in {name} |-> [c \in {1} |-> method]]

MCConfigs == {
    <<[n \in {<<"a">>, <<"b">>} |-> [c \in {1, 2} |-> Method(c = 1, IF n = <<"a">> THEN "Flush" ELSE "Buffer")]]>>,
    <<[n \in {<<"a">>} |-> [c \in {1, 2, 9} |-> IF c = 2 THEN Bad ELSE Method(TRUE, "none")]]>>,
    <<One(<<"a">>, Method(TRUE, "Buffer")), One(<<"b">>, Method(TRUE, "Flush"))>>,
    <<One(<<"a">>, Method(TRUE, "Buffer")), One(<<"a">>, Method(TRUE, "Flush"))>>,
    <<[n \in {<<"a", "b">>, <<"a">>} |-> [c \in {1} |-> Method(TRUE, "none")]]>>,
    <<[n \in {<<"a", "b">>, <<"a", "b", "a">>} |-> [c \in {1} |-> Method(TRUE, "none")]]>>,
    <<[n \in {<<"a", Nul>>, <<Nul, "a">>, <<Nul>>} |-> [c \in {1} |-> Method(TRUE, "none")]]>>}

(* One name that a key cannot hold. *)
UnfitConfigs == {<<One(n, Method(TRUE, "none"))>> : n \in {<<"a", "b">>, <<Nul, "a">>}}

Empty == [k \in {} |-> <<>>]
NoLeftovers == {Empty}
MCLeftovers == {Empty, [k \in {<<"a", Nul>>} |-> <<3>>], [k \in {<<"b", Nul>>, <<"a", "b">>} |-> <<2>>],
                [k \in {<<Nul, "a">>} |-> <<2>>]}

Logging(id, positions) == [present |-> TRUE, atomId |-> id, positions |-> positions]
MCLoggingConfigs == {
    [present |-> FALSE, atomId |-> FALSE, positions |-> <<>>], Logging(FALSE, <<>>),
    Logging(TRUE, <<1, 0>>), Logging(TRUE, <<7, -3>>), Logging(TRUE, <<8>>)}

HandlersSymmetry == Permutations(Uids) \cup Permutations(Ptrs)
=============================================================================
