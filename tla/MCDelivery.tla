----------------------------- MODULE MCDelivery -----------------------------
EXTENDS Delivery
NoSkew == [s \in Server |-> 0]
MCTime == -Delay..(Second - 1 + Spread + RetryDelay)
=============================================================================
