-------------------------- MODULE MCWebhookDelivery --------------------------
(* Model values, subscriptions and symmetry for the runs of WebhookDelivery. *)
EXTENDS WebhookDelivery, TLC

CONSTANTS h1, h2, e1, e2, t1, w1

OneHook == {h1}
TwoHooks == {h1, h2}
OneEvent == {e1}
TwoEvents == {e1, e2}
OneWorker == {w1}

OneType == [e \in OneEvent |-> "FACT_SHEET_UPDATED"]
TwoTypes == [e \in TwoEvents |-> IF e = e1 THEN "FACT_SHEET_UPDATED"
                                           ELSE "FACT_SHEET_ARCHIVED"]

Config(active, ignore, events, tagSets) ==
    [active |-> active, ignoreError |-> ignore, events |-> events, tagSets |-> tagSets]

\* With retries, without, narrowed to an event type, narrowed to a tag, inactive.
Retrying == Config(TRUE, FALSE, {}, {})
Ignoring == Config(TRUE, TRUE, {}, {})
Narrowed == Config(TRUE, FALSE, {"FACT_SHEET_UPDATED"}, {})
Tagged == Config(TRUE, FALSE, {}, {{t1}})
Inactive == Config(FALSE, FALSE, {}, {})

ModeConfigs == {Retrying, Ignoring, Inactive}
FilterConfigs == {Narrowed, Tagged}
=============================================================================
