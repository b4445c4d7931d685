SPECIFICATION BootSpec
CONSTANTS
    Internal = {gpt1, gpt2, cspi}
    Gpio = {gpio}
    Beyond = {beyond}
    Gpt1 = gpt1
    Gpt2 = gpt2
    Drivers = {spi, other}
    NULL = NULL
    TICK = 2
INVARIANTS BootTypeOK EnabledHasHandler ReturnsUnmasked NoReturnMasked KernelReady
           OwnerServed
