-------------------------------- MODULE MCSetup --------------------------------
(* Instances of Setup for TLC. *)
EXTENDS Setup

CONSTANTS h1, h2, p1, p2, s1, s2

Cam(name, events, linger, mac, host) ==
    [name |-> name, selected |-> TRUE, events |-> events, linger |-> linger,
     mac |-> mac, ip |-> [addr |-> host, style |-> "v4"]]

FrontCam == Cam("Front", FALSE, "none", NoAddress, 1)
BackCam == Cam("Back", TRUE, "none", NoAddress, 2)
Rear == Cam("Back", TRUE, "none", FormatMAC(1), 2)
Backside == Cam("Back", TRUE, "60s", FormatMAC(MaxMAC), 2)

MCSlug == [n \in {"Front", "front!", "Back"} |->
              IF n = "Back" THEN <<"back">> ELSE <<"front">>]

\* Nothing; two cameras that fit, one with the first address; one path twice; a
\* linger that does not parse; the pool of addresses exhausted, and overrun.
MCCameraLists ==
    {<<>>,
     <<FrontCam, Rear>>,
     <<FrontCam, [FrontCam EXCEPT !.name = "front!", !.ip.addr = 3]>>,
     <<[BackCam EXCEPT !.linger = "malformed"]>>,
     <<FrontCam, Backside, [FrontCam EXCEPT !.ip.addr = 3]>>,
     <<FrontCam, BackCam, [FrontCam EXCEPT !.ip.addr = 3]>>}

Project1 == [project |-> p1, rest |-> "valid"]

\* Another project, the same without a client, and nothing.
MCGoogleInputs ==
    {[project |-> p2, rest |-> "valid"], [project |-> p1, rest |-> "partial"],
     [project |-> NoProject, rest |-> "partial"]}

OneCamera ==
    [google |-> Project1, sub |-> NoSub, onvif |-> FALSE,
     cams |-> <<[FrontCam EXCEPT !.mac = FormatMAC(1)]>>]

WithEvents ==
    [google |-> Project1, sub |-> s1, onvif |-> TRUE,
     cams |-> <<[BackCam EXCEPT !.mac = FormatMAC(1), !.linger = "60s"]>>]

Scenario(kinds, n, configs, composes) ==
    [kinds |-> kinds, requests |-> n, roots |-> BOOLEAN, configs |-> configs,
     composes |-> composes, tokens |-> {0}]

Shipped == <<Placeholder, Loopback>>

MCScenarios ==
    {Scenario({"network", "cameras", "restart"}, 4, {Absent, OneCamera}, {Shipped}),
     Scenario({"google", "save", "restart"}, 4, {Absent, OneCamera}, {Shipped}),
     Scenario({"google", "events", "restart"}, 3, {Absent, WithEvents}, {Shipped}),
     Scenario({"events", "key", "restart"}, 4, {WithEvents}, {Shipped}),
     Scenario({"cameras", "save", "restart"}, 4, {OneCamera}, {Shipped}),
     Scenario({"network", "deploy", "restart"}, 3, {OneCamera}, {Shipped}),
     Scenario({"events", "key", "deploy", "restart"}, 4, {WithEvents}, {Shipped}),
     Scenario({"cameras", "network", "save", "deploy"}, 4, {OneCamera},
              {Shipped, <<h1, h1>>, <<h1>>, <<h2, Loopback>>}),
     [Scenario({"deploy"}, 1, {OneCamera}, {Shipped}) EXCEPT !.tokens = {NoTokens}],
     [Scenario({"authorize"}, 0, {Absent}, {Shipped}) EXCEPT !.roots = {FALSE}]}
=============================================================================
