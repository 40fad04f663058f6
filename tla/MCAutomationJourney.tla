------------------------ MODULE MCAutomationJourney ------------------------
(* An instance of AutomationJourney for TLC: a welcome mail, a delay, a fork *)
(* and a last delay, which the second configuration leaves without the fork; *)
(* and the shortest automation that sends a mail.                            *)
EXTENDS AutomationJourney, TLC

CONSTANTS ann, cyd

Kinds == <<"pass", "email", "delay", "fork", "delay">>
TwoConfigs == <<1 .. 5, {1, 2, 3, 5}>>
OneConfig == <<1 .. 5>>

Welcome == <<"pass", "email">>
WelcomeConfig == <<1 .. 2>>

Limits(requests, faults, blind) ==
    [m \in {"request", "fault", "blind"} |->
        CASE m = "request" -> requests [] m = "fault" -> faults [] OTHER -> blind]

Operated == Limits(2, 1, 1)
NoMishap == Limits(0, 0, 0)
=============================================================================
