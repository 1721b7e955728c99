-------------------------- MODULE MCSubscriptions --------------------------
\* One collection and the wildcard: both subscriptions may be for either.
EXTENDS Subscriptions

Star == "*"
AlertsAndStar == {"alerts", Star}
=============================================================================
